---- MODULE Spec2Model ----
(***************************************************************************)
(* Assistant subsystem of the CRM: the action state machine (propose,      *)
(* confirm, cancel and the seventeen typed executors), the streaming chat  *)
(* turn that persists proposals and messages, and the retrieval engine.    *)
(***************************************************************************)
EXTENDS Integers, Sequences, FiniteSets, TLC

(* ------------------------------------------------------------------------ *)
(* Bounds                                                                   *)
(* ------------------------------------------------------------------------ *)
MaxActions == 1
MaxTurns == 1
MaxDeltas == 2
MaxRequests == 3

\* Conversation windowing
MAX_ACTIVE_MESSAGES == 20
SUMMARY_TRIGGER_MESSAGES == 15
MAX_SUMMARY_LENGTH == 500

(* ------------------------------------------------------------------------ *)
(* Users, threads, business records                                         *)
(* ------------------------------------------------------------------------ *)
Users == {"u1", "u2"}
NoUser == "anonymous"
Sessions == Users \cup {NoUser}

\* One thread, owned by u1; u2 and the anonymous caller are foreign to it
ThreadIds == {"th1"}
ThreadOwner == [th \in ThreadIds |-> "u1"]

None == "none"
NewIds == <<"x1", "x2", "x3", "x4">>
SeedIds == {"c1", "c2", "k1", "k2", "k3", "d1", "d2", "d3", "t1", "t2", "t3", "n1", "n2"}
RecIds == SeedIds \cup {NewIds[i] : i \in 1..Len(NewIds)} \cup {"gone"}

NoRec == [type |-> None, owner |-> None, val |-> None, ver |-> 0,
          companyId |-> None, contactId |-> None, relatedId |-> None]

Rec(type, owner, val, companyId, contactId, relatedId) ==
  [type |-> type, owner |-> owner, val |-> val, ver |-> 0,
   companyId |-> companyId, contactId |-> contactId, relatedId |-> relatedId]

SeedType(id) ==
  CASE id \in {"c1", "c2"} -> "COMPANY"
    [] id \in {"k1", "k2", "k3"} -> "CONTACT"
    [] id \in {"d1", "d2", "d3"} -> "DEAL"
    [] id \in {"t1", "t2", "t3"} -> "TASK"
    [] OTHER -> "NOTE"

SeedOwner(id) == IF id \in {"c2", "k2", "d2", "t2", "n2"} THEN "u2" ELSE "u1"

SeedRecords ==
  [id \in RecIds |->
     IF id \in SeedIds
       THEN Rec(SeedType(id), SeedOwner(id), "old",
                IF id \in {"k1", "d1"} THEN "c1" ELSE None,
                IF id = "d1" THEN "k1" ELSE None,
                IF id \in {"n1", "t1"} THEN "k1" ELSE None)
       ELSE NoRec]

Exists(recs, id) == id \in RecIds /\ recs[id] # NoRec

\* prisma.<table>.findFirst({ where: { id, ownerUserId: userId } })
Owned(recs, type, id, userId) ==
  Exists(recs, id) /\ recs[id].type = type /\ recs[id].owner = userId

(* ------------------------------------------------------------------------ *)
(* Action types and payloads                                                *)
(* ------------------------------------------------------------------------ *)
ActionTypes ==
  {"CREATE_TASK", "CREATE_NOTE", "CREATE_DEAL", "CREATE_CONTACT", "CREATE_COMPANY",
   "UPDATE_DEAL_STAGE", "UPDATE_CONTACT", "UPDATE_COMPANY", "UPDATE_TASK",
   "DELETE_TASK", "DELETE_NOTE", "DELETE_DEAL", "DELETE_CONTACT", "DELETE_COMPANY",
   "BULK_UPDATE_DEALS", "BULK_UPDATE_TASKS", "BULK_UPDATE_CONTACTS"}

ActionStatus == {"PROPOSED", "CONFIRMED", "CANCELLED", "EXECUTED", "FAILED"}

\* A payload: req says whether the required scalar fields of the schema
\* (title, body, name, firstName/lastName, stage) are present and non-empty;
\* id is the record the action targets; ids the id list of a bulk action.
Payload(req, id, ids, companyId, contactId, relatedId) ==
  [req |-> req, id |-> id, ids |-> ids,
   companyId |-> companyId, contactId |-> contactId, relatedId |-> relatedId]

EmptyPayload == Payload(FALSE, None, <<>>, None, None, None)

PayloadsOf(at) ==
  CASE at = "CREATE_TASK" ->
         {Payload(TRUE, None, <<>>, None, None, r) : r \in {None, "k1", "k2"}}
    [] at = "CREATE_NOTE" ->
         {Payload(TRUE, None, <<>>, None, None, r) : r \in {"k1", "k2"}}
    [] at = "CREATE_DEAL" ->
         {Payload(TRUE, None, <<>>, cc[1], cc[2], None) :
            cc \in {<<None, None>>, <<"c1", "k1">>, <<"c2", None>>,
                    <<None, "k2">>, <<"c1", "k2">>}}
    [] at = "CREATE_CONTACT" ->
         {Payload(TRUE, None, <<>>, c, None, None) : c \in {None, "c1", "c2"}}
    [] at = "CREATE_COMPANY" ->
         {Payload(TRUE, None, <<>>, None, None, None)}
    [] at = "UPDATE_DEAL_STAGE" ->
         {Payload(TRUE, d, <<>>, None, None, None) : d \in {"d1", "d2", "gone"}}
    [] at = "UPDATE_CONTACT" ->
         {Payload(TRUE, kc[1], <<>>, kc[2], None, None) :
            kc \in {<<"k1", None>>, <<"k1", "c1">>, <<"k1", "c2">>,
                    <<"k2", None>>, <<"k2", "c2">>}}
    [] at = "UPDATE_COMPANY" ->
         {Payload(TRUE, c, <<>>, None, None, None) : c \in {"c1", "c2"}}
    [] at = "UPDATE_TASK" ->
         {Payload(TRUE, t, <<>>, None, None, None) : t \in {"t1", "t2"}}
    [] at = "DELETE_TASK" ->
         {Payload(TRUE, t, <<>>, None, None, None) : t \in {"t1", "t2"}}
    [] at = "DELETE_NOTE" ->
         {Payload(TRUE, n, <<>>, None, None, None) : n \in {"n1", "n2"}}
    [] at = "DELETE_DEAL" ->
         {Payload(TRUE, d, <<>>, None, None, None) : d \in {"d1", "d2"}}
    [] at = "DELETE_CONTACT" ->
         {Payload(TRUE, k, <<>>, None, None, None) : k \in {"k1", "k2"}}
    [] at = "DELETE_COMPANY" ->
         {Payload(TRUE, c, <<>>, None, None, None) : c \in {"c1", "c2"}}
    [] at = "BULK_UPDATE_DEALS" ->
         {Payload(TRUE, None, l, None, None, None) :
            l \in {<<"d1">>, <<"d1", "d3">>, <<"d1", "d2">>, <<"d1", "d1">>, <<"d2">>}}
    [] at = "BULK_UPDATE_TASKS" ->
         {Payload(TRUE, None, l, None, None, None) :
            l \in {<<"t1", "t3">>, <<"t1", "t2">>, <<"t1", "t1">>}}
    [] at = "BULK_UPDATE_CONTACTS" ->
         {Payload(TRUE, None, lc[1], lc[2], None, None) :
            lc \in {<<(<<"k1", "k3">>), None>>, <<(<<"k1", "k3">>), "c1">>,
                    <<(<<"k1", "k3">>), "c2">>, <<(<<"k1", "k2">>), None>>,
                    <<(<<"k1", "k1">>), "c1">>}}
    [] OTHER -> {}

\* Every (actionType, payload) pair a caller or the model output may carry:
\* the well-formed payloads above and the empty object {} for every type.
Proposals ==
  {<<at, p>> : at \in ActionTypes, p \in {EmptyPayload}}
    \cup UNION {{<<at, p>> : p \in PayloadsOf(at)} : at \in ActionTypes}

validatePayload(actionType, p) ==
  CASE actionType \in {"CREATE_TASK", "CREATE_DEAL", "CREATE_CONTACT", "CREATE_COMPANY"} ->
         p.req
    [] actionType = "CREATE_NOTE" -> p.req /\ p.relatedId # None
    [] actionType = "UPDATE_DEAL_STAGE" -> p.id # None /\ p.req
    [] actionType \in {"UPDATE_CONTACT", "UPDATE_COMPANY", "UPDATE_TASK",
                       "DELETE_TASK", "DELETE_NOTE", "DELETE_DEAL",
                       "DELETE_CONTACT", "DELETE_COMPANY"} -> p.id # None
    [] actionType \in {"BULK_UPDATE_DEALS", "BULK_UPDATE_TASKS", "BULK_UPDATE_CONTACTS"} ->
         Len(p.ids) >= 1
    [] OTHER -> FALSE

(* ------------------------------------------------------------------------ *)
(* Executors: each returns whether it threw, the records after it, the      *)
(* number of records created so far and whether its write was applied.      *)
(* ------------------------------------------------------------------------ *)
Threw(recs, n) == [threw |-> TRUE, recs |-> recs, created |-> n, wrote |-> FALSE]
Wrote(recs, n) == [threw |-> FALSE, recs |-> recs, created |-> n, wrote |-> TRUE]

\* prisma.<table>.create: the new row gets a fresh id
CreateRec(recs, n, rec) == Wrote([recs EXCEPT ![NewIds[n + 1]] = rec], n + 1)

\* prisma.<table>.update / updateMany on the rows in ids
UpdateRecs(recs, ids, companyId) ==
  [id \in RecIds |->
     IF id \in ids
       THEN [recs[id] EXCEPT !.val = "new", !.ver = @ + 1,
                             !.companyId = IF companyId # None THEN companyId ELSE @]
       ELSE recs[id]]

\* prisma.<table>.delete: references to the row are set to null (ON DELETE SET NULL)
DeleteRec(recs, id) ==
  [r \in RecIds |->
     IF r = id THEN NoRec
     ELSE IF recs[r] = NoRec THEN NoRec
     ELSE [recs[r] EXCEPT
             !.companyId = IF recs[id].type = "COMPANY" /\ @ = id THEN None ELSE @,
             !.contactId = IF recs[id].type = "CONTACT" /\ @ = id THEN None ELSE @]]

Range(seq) == {seq[i] : i \in 1..Len(seq)}

executeCreateTask(p, userId, recs, n) ==
  IF ~p.req THEN Threw(recs, n)
  ELSE CreateRec(recs, n, Rec("TASK", userId, "new", None, None, p.relatedId))

executeCreateNote(p, userId, recs, n) ==
  IF ~p.req \/ p.relatedId = None THEN Threw(recs, n)
  ELSE CreateRec(recs, n, Rec("NOTE", userId, "new", None, None, p.relatedId))

executeCreateDeal(p, userId, recs, n) ==
  IF p.companyId # None /\ ~Owned(recs, "COMPANY", p.companyId, userId) THEN Threw(recs, n)
  ELSE IF p.contactId # None /\ ~Owned(recs, "CONTACT", p.contactId, userId) THEN Threw(recs, n)
  ELSE IF ~p.req THEN Threw(recs, n)
  ELSE CreateRec(recs, n, Rec("DEAL", userId, "new", p.companyId, p.contactId, None))

executeCreateContact(p, userId, recs, n) ==
  IF p.companyId # None /\ ~Owned(recs, "COMPANY", p.companyId, userId) THEN Threw(recs, n)
  ELSE IF ~p.req THEN Threw(recs, n)
  ELSE CreateRec(recs, n, Rec("CONTACT", userId, "new", p.companyId, None, None))

executeCreateCompany(p, userId, recs, n) ==
  IF ~p.req THEN Threw(recs, n)
  ELSE CreateRec(recs, n, Rec("COMPANY", userId, "new", None, None, None))

\* findFirst by id and owner, then update by id alone
executeUpdate(type, p, companyId, userId, recs, n) ==
  IF p.id = None THEN Threw(recs, n)
  ELSE IF ~Owned(recs, type, p.id, userId) THEN Threw(recs, n)
  ELSE IF companyId # None /\ ~Owned(recs, "COMPANY", companyId, userId) THEN Threw(recs, n)
  ELSE Wrote(UpdateRecs(recs, {p.id}, companyId), n)

executeUpdateDealStage(p, userId, recs, n) == executeUpdate("DEAL", p, None, userId, recs, n)
executeUpdateContact(p, userId, recs, n) == executeUpdate("CONTACT", p, p.companyId, userId, recs, n)
executeUpdateCompany(p, userId, recs, n) == executeUpdate("COMPANY", p, None, userId, recs, n)
executeUpdateTask(p, userId, recs, n) == executeUpdate("TASK", p, None, userId, recs, n)

\* findFirst by id and owner, then delete by id alone
executeDelete(type, p, userId, recs, n) ==
  IF p.id = None THEN Threw(recs, n)
  ELSE IF ~Owned(recs, type, p.id, userId) THEN Threw(recs, n)
  ELSE Wrote(DeleteRec(recs, p.id), n)

executeDeleteTask(p, userId, recs, n) == executeDelete("TASK", p, userId, recs, n)
executeDeleteNote(p, userId, recs, n) == executeDelete("NOTE", p, userId, recs, n)
executeDeleteDeal(p, userId, recs, n) == executeDelete("DEAL", p, userId, recs, n)
executeDeleteContact(p, userId, recs, n) == executeDelete("CONTACT", p, userId, recs, n)
executeDeleteCompany(p, userId, recs, n) == executeDelete("COMPANY", p, userId, recs, n)

\* findMany({ id: { in: ids }, ownerUserId }) returns each matching row once
OwnedRows(recs, type, ids, userId) == {id \in Range(ids) : Owned(recs, type, id, userId)}

\* rows.length !== ids.length rejects; updateMany then writes the owned rows
executeBulkUpdate(type, p, companyId, userId, recs, n) ==
  IF Len(p.ids) = 0 THEN Threw(recs, n)
  ELSE IF Cardinality(OwnedRows(recs, type, p.ids, userId)) # Len(p.ids) THEN Threw(recs, n)
  ELSE IF companyId # None /\ ~Owned(recs, "COMPANY", companyId, userId) THEN Threw(recs, n)
  ELSE Wrote(UpdateRecs(recs, OwnedRows(recs, type, p.ids, userId), companyId), n)

executeBulkUpdateDeals(p, userId, recs, n) == executeBulkUpdate("DEAL", p, None, userId, recs, n)
executeBulkUpdateTasks(p, userId, recs, n) == executeBulkUpdate("TASK", p, None, userId, recs, n)
executeBulkUpdateContacts(p, userId, recs, n) ==
  executeBulkUpdate("CONTACT", p, p.companyId, userId, recs, n)

executeAction(actionType, p, userId, recs, n) ==
  CASE actionType = "CREATE_TASK" -> executeCreateTask(p, userId, recs, n)
    [] actionType = "CREATE_NOTE" -> executeCreateNote(p, userId, recs, n)
    [] actionType = "CREATE_DEAL" -> executeCreateDeal(p, userId, recs, n)
    [] actionType = "CREATE_CONTACT" -> executeCreateContact(p, userId, recs, n)
    [] actionType = "CREATE_COMPANY" -> executeCreateCompany(p, userId, recs, n)
    [] actionType = "UPDATE_DEAL_STAGE" -> executeUpdateDealStage(p, userId, recs, n)
    [] actionType = "UPDATE_CONTACT" -> executeUpdateContact(p, userId, recs, n)
    [] actionType = "UPDATE_COMPANY" -> executeUpdateCompany(p, userId, recs, n)
    [] actionType = "UPDATE_TASK" -> executeUpdateTask(p, userId, recs, n)
    [] actionType = "DELETE_TASK" -> executeDeleteTask(p, userId, recs, n)
    [] actionType = "DELETE_NOTE" -> executeDeleteNote(p, userId, recs, n)
    [] actionType = "DELETE_DEAL" -> executeDeleteDeal(p, userId, recs, n)
    [] actionType = "DELETE_CONTACT" -> executeDeleteContact(p, userId, recs, n)
    [] actionType = "DELETE_COMPANY" -> executeDeleteCompany(p, userId, recs, n)
    [] actionType = "BULK_UPDATE_DEALS" -> executeBulkUpdateDeals(p, userId, recs, n)
    [] actionType = "BULK_UPDATE_TASKS" -> executeBulkUpdateTasks(p, userId, recs, n)
    [] actionType = "BULK_UPDATE_CONTACTS" -> executeBulkUpdateContacts(p, userId, recs, n)
    [] OTHER -> Threw(recs, n)

(* ------------------------------------------------------------------------ *)
(* Model output and its parser                                              *)
(* ------------------------------------------------------------------------ *)
\* The (actionType, payload) pairs requests and model outputs carry in Spec
Requests ==
  {<<"CREATE_TASK", Payload(TRUE, None, <<>>, None, None, None)>>,
   <<"CREATE_TASK", EmptyPayload>>,
   <<"DELETE_CONTACT", Payload(TRUE, "k2", <<>>, None, None, None)>>}

\* The completed model text: json says what the first fenced block (or the
\* first brace-delimited span) holds; obj is the decoded object.
Raw(json, type, actionType, payload, summary) ==
  [json |-> json, type |-> type, actionType |-> actionType, payload |-> payload,
   summary |-> summary]

RawOutputs ==
  {Raw("none", None, None, EmptyPayload, FALSE),
   Raw("malformed", None, None, EmptyPayload, FALSE),
   Raw("object", "text", None, EmptyPayload, FALSE),
   Raw("object", "other", None, EmptyPayload, FALSE),
   Raw("object", "action_proposal", "BOGUS", EmptyPayload, TRUE),
   Raw("object", "action_proposal", "CREATE_TASK", EmptyPayload, FALSE)}
    \cup {Raw("object", "action_proposal", ap[1], ap[2], TRUE) : ap \in Requests}

Null == [kind |-> "null", actionType |-> None, payload |-> EmptyPayload]

\* actionProposalSchema: type literal, actionType in the enum, payload any
\* record, summary non-empty; assistantResponseSchema: type text, content.
parseAssistantResponse(raw) ==
  IF raw.json # "object" THEN Null
  ELSE IF raw.type = "action_proposal" /\ raw.actionType \in ActionTypes /\ raw.summary
    THEN [kind |-> "action_proposal", actionType |-> raw.actionType, payload |-> raw.payload]
  ELSE IF raw.type = "text"
    THEN [kind |-> "text", actionType |-> None, payload |-> EmptyPayload]
  ELSE Null

isActionProposal(response) == response.kind = "action_proposal"

(* ------------------------------------------------------------------------ *)
(* State                                                                    *)
(* ------------------------------------------------------------------------ *)
VARIABLES
  records,    \* business records by id (task, note, deal, contact, company)
  created,    \* number of records created so far
  actions,    \* assistant_actions rows, in creation order; the index is the id
  statusLog,  \* per action, every status ever written to its row, in order
  messages,   \* assistant_messages rows, in creation order
  last,       \* the most recent propose / confirm / cancel call and its outcome
  turn,       \* the most recent chat turn: its position, stream and events
  embeddings, \* document_embeddings rows
  found,      \* the most recent search call and what it returned
  started,    \* number of chat turns accepted so far
  window,     \* the managed conversation history handed to the model in the latest turn
  titleWrites,\* number of times the thread title has been regenerated
  starts,     \* per concurrent chat request, its position in the opening of the handler
  jobs,       \* background embedding tasks, in the order they were scheduled
  race,       \* per concurrent confirm / cancel call, its position in the handler
  auth,       \* the account behind the login form and the sign-in calls on it
  rate        \* rate limit counters and the latest rate-limited request

vars == <<records, created, actions, statusLog, messages, last, turn, embeddings, found,
          started, window, titleWrites, starts, jobs, race, auth, rate>>

Later == <<jobs, race, auth, rate>>

Index == <<embeddings, found>>

ChatVars == <<started, window, titleWrites>>

ActionIds == 1..MaxActions

NoCall == [op |-> "none", user |-> NoUser, aid |-> 0, outcome |-> "none",
           pre |-> None, wrote |-> FALSE]

Call(op, user, aid, outcome, pre, wrote) ==
  [op |-> op, user |-> user, aid |-> aid, outcome |-> outcome,
   pre |-> pre, wrote |-> wrote]

NoSearch == [path |-> "none", query |-> "", userId |-> NoUser, topK |-> -1,
             minSimilarity |-> -1, hasTypes |-> FALSE, sourceTypes |-> <<>>,
             results |-> <<>>]

NoTurn == [pc |-> "idle", user |-> NoUser, threadId |-> None, chunks |-> 0,
           failed |-> FALSE, isClosed |-> FALSE, timeout |-> FALSE, events |-> <<>>,
           savedAction |-> 0, savedMessage |-> FALSE, cancelled |-> FALSE]

NoWindow == [messages |-> <<>>, messageCount |-> 0, shouldSummarize |-> FALSE,
             hasSummary |-> FALSE, summaryLength |-> 0]

Procs == 1..MaxRequests

NoStarts == [p \in Procs |-> [pc |-> "idle", messageCount |-> 0]]




StatusOf(acts, aid) == IF aid \in 1..Len(acts) THEN acts[aid].status ELSE None

\* Requests are served one at a time: none starts while a turn is streaming
Quiet == turn.pc # "streaming"

\* The points of confirmAction / cancelAction where a collaborator call
\* (a database call, revalidatePath) may throw; the second component says
\* whether the FAILED update of the catch block throws as well.
ConfirmFaults ==
  {<<f, FALSE>> : f \in {"none", "load", "confirm", "exec", "post", "mark", "revalidate"}}
    \cup {<<f, TRUE>> : f \in {"exec", "post", "mark", "revalidate"}}
CancelFaults == {"none", "load", "write"}

(* ------------------------------------------------------------------------ *)
(* proposeAction                                                            *)
(* ------------------------------------------------------------------------ *)
NewAction(threadId, actionType, payload) ==
  [threadId |-> threadId, actionType |-> actionType, payload |-> payload,
   status |-> "PROPOSED", errorMsg |-> FALSE, executedAt |-> FALSE]

proposeOutcome(user, threadId, actionType, payload) ==
  IF user = NoUser THEN "unauthorized"
  ELSE IF ThreadOwner[threadId] # user THEN "notfound"
  ELSE IF ~validatePayload(actionType, payload) THEN "invalid"
  ELSE "ok"

proposeAction(user, threadId, actionType, payload) ==
  LET outcome == proposeOutcome(user, threadId, actionType, payload) IN
  /\ Quiet
  /\ outcome = "ok" => Len(actions) < MaxActions
  /\ IF outcome = "ok"
       THEN /\ actions' = Append(actions, NewAction(threadId, actionType, payload))
            /\ statusLog' = Append(statusLog, <<"PROPOSED">>)
            /\ last' = Call("propose", user, Len(actions) + 1, outcome, None, FALSE)
       ELSE /\ UNCHANGED <<actions, statusLog>>
            /\ last' = Call("propose", user, 0, outcome, None, FALSE)
  /\ turn' = NoTurn
  /\ UNCHANGED <<records, created, messages>>

(* ------------------------------------------------------------------------ *)
(* confirmAction                                                            *)
(* ------------------------------------------------------------------------ *)
\* admit without the status check
admit_anyStatus(user, aid, loadFails) ==
  IF user = NoUser THEN "unauthorized"
  ELSE IF loadFails THEN "threw"
  ELSE IF aid \notin 1..Len(actions) THEN "notfound"
  ELSE IF ThreadOwner[actions[aid].threadId] # user THEN "notfound"
  ELSE "ok"

\* What the guards before the first write decide
admit(user, aid, loadFails) ==
  IF user = NoUser THEN "unauthorized"
  ELSE IF loadFails THEN "threw"
  ELSE IF aid \notin 1..Len(actions) THEN "notfound"
  ELSE IF ThreadOwner[actions[aid].threadId] # user THEN "notfound"
  ELSE IF actions[aid].status # "PROPOSED" THEN "badstatus"
  ELSE "ok"

\* The faults a call can meet: those behind the guards only when the guards
\* let it through
ConfirmFaultsAt(user, aid) ==
  IF admit(user, aid, FALSE) = "ok" THEN ConfirmFaults
  ELSE {f \in ConfirmFaults : f[1] \in {"none", "load"}}

CancelFaultsAt(user, aid) ==
  IF admit(user, aid, FALSE) = "ok" THEN CancelFaults
  ELSE {f \in CancelFaults : f \in {"none", "load"}}

\* The try block: the executor, the EXECUTED update and the revalidation;
\* written lists the statuses the call writes after CONFIRMED.
confirmTry(a, user, fault, catchFails) ==
  LET r == IF fault = "exec" THEN Threw(records, created)
           ELSE executeAction(a.actionType, a.payload, user, records, created)
      caught == IF catchFails THEN <<>> ELSE <<"FAILED">>
      result == IF catchFails THEN "threw" ELSE "failed"
  IN
  IF r.threw \/ fault \in {"post", "mark"}
    THEN [outcome |-> result, written |-> caught, r |-> r, executedAt |-> FALSE]
  ELSE IF fault = "revalidate"
    THEN [outcome |-> result, written |-> <<"EXECUTED">> \o caught, r |-> r,
          executedAt |-> TRUE]
  ELSE [outcome |-> "ok", written |-> <<"EXECUTED">>, r |-> r, executedAt |-> TRUE]

confirmAction(user, aid, fault, catchFails) ==
  LET adm == admit(user, aid, fault = "load")
      pre == StatusOf(actions, aid)
  IN
  /\ Quiet
  /\ turn' = NoTurn
  /\ UNCHANGED messages
  /\ IF adm # "ok" \/ fault = "confirm"
       THEN /\ last' = Call("confirm", user, aid, IF adm # "ok" THEN adm ELSE "threw",
                            pre, FALSE)
            /\ UNCHANGED <<records, created, actions, statusLog>>
       ELSE LET t == confirmTry(actions[aid], user, fault, catchFails)
                log == <<"CONFIRMED">> \o t.written
            IN
            /\ records' = t.r.recs
            /\ created' = t.r.created
            /\ actions' = [actions EXCEPT ![aid].status = log[Len(log)],
                                          ![aid].executedAt = t.executedAt,
                                          ![aid].errorMsg = (log[Len(log)] = "FAILED")]
            /\ statusLog' = [statusLog EXCEPT ![aid] = @ \o log]
            /\ last' = Call("confirm", user, aid, t.outcome, pre, t.r.wrote)

(* ------------------------------------------------------------------------ *)
(* cancelAction                                                             *)
(* ------------------------------------------------------------------------ *)
\* cancelAction loading the action by id without the owner comparison
cancelAction_anyOwner(user, aid, fault) ==
  LET loaded == user # NoUser /\ fault # "load" /\ aid \in 1..Len(actions)
      pre == StatusOf(actions, aid)
  IN
  /\ Quiet
  /\ turn' = NoTurn
  /\ UNCHANGED <<records, created, messages>>
  /\ IF ~loaded \/ pre # "PROPOSED" \/ fault = "write"
       THEN /\ last' = Call("cancel", user, aid, "threw", pre, FALSE)
            /\ UNCHANGED <<actions, statusLog>>
       ELSE /\ actions' = [actions EXCEPT ![aid].status = "CANCELLED"]
            /\ statusLog' = [statusLog EXCEPT ![aid] = Append(@, "CANCELLED")]
            /\ last' = Call("cancel", user, aid, "ok", pre, FALSE)

\* cancelAction running the executor before it marks the action cancelled
cancelAction_executes(user, aid, fault) ==
  LET adm == admit(user, aid, fault = "load")
      pre == StatusOf(actions, aid)
  IN
  /\ Quiet
  /\ turn' = NoTurn
  /\ UNCHANGED messages
  /\ IF adm # "ok" \/ fault = "write"
       THEN /\ last' = Call("cancel", user, aid, IF adm # "ok" THEN adm ELSE "threw",
                            pre, FALSE)
            /\ UNCHANGED <<records, created, actions, statusLog>>
       ELSE LET r == executeAction(actions[aid].actionType, actions[aid].payload, user,
                                   records, created)
            IN
            /\ records' = r.recs
            /\ created' = r.created
            /\ actions' = [actions EXCEPT ![aid].status = "CANCELLED"]
            /\ statusLog' = [statusLog EXCEPT ![aid] = Append(@, "CANCELLED")]
            /\ last' = Call("cancel", user, aid, "ok", pre, r.wrote)

cancelAction(user, aid, fault) ==
  LET adm == admit(user, aid, fault = "load")
      pre == StatusOf(actions, aid)
  IN
  /\ Quiet
  /\ turn' = NoTurn
  /\ UNCHANGED <<records, created, messages>>
  /\ IF adm # "ok" \/ fault = "write"
       THEN /\ last' = Call("cancel", user, aid, IF adm # "ok" THEN adm ELSE "threw",
                            pre, FALSE)
            /\ UNCHANGED <<actions, statusLog>>
       ELSE /\ actions' = [actions EXCEPT ![aid].status = "CANCELLED"]
            /\ statusLog' = [statusLog EXCEPT ![aid] = Append(@, "CANCELLED")]
            /\ last' = Call("cancel", user, aid, "ok", pre, FALSE)

(* ------------------------------------------------------------------------ *)
(* The chat turn (POST of the chat route)                                   *)
(* ------------------------------------------------------------------------ *)
\* controller.enqueue throws once the client has cancelled the stream; the
\* exception is swallowed and the stream marked closed
safeEnqueue_unguarded(t, event) == [t EXCEPT !.events = Append(@, event)]

safeEnqueue(t, event) ==
  IF ~t.isClosed
    THEN IF t.cancelled THEN [t EXCEPT !.isClosed = TRUE]
                        ELSE [t EXCEPT !.events = Append(@, event)]
    ELSE t

safeClose(t) == [t EXCEPT !.isClosed = TRUE]

UserMessages == {i \in 1..Len(messages) : messages[i][2] = "USER"}

\* thread.messages as loaded with the thread: the rows of the thread in
\* creation order, each identified by its position in the table
ConversationMessages(msgs, threadId) ==
  LET idx == SelectSeq([i \in 1..Len(msgs) |-> i], LAMBDA i : msgs[i][1] = threadId)
  IN  [k \in 1..Len(idx) |-> [id |-> idx[k], role |-> msgs[idx[k]][2]]]

\* Lengths of the joined summary text before truncation
SummaryLengths == {40, 500, 501}

\* Length of the text generateConversationSummary returns
generateConversationSummary_untruncated(rawLength) == rawLength

generateConversationSummary(rawLength) ==
  IF rawLength > MAX_SUMMARY_LENGTH THEN (MAX_SUMMARY_LENGTH - 3) + 3 ELSE rawLength

manageConversationHistory(msgs, rawLength) ==
  LET n == Len(msgs)
      shouldSummarize == n >= SUMMARY_TRIGGER_MESSAGES
      cut == IF n > MAX_ACTIVE_MESSAGES THEN n - MAX_ACTIVE_MESSAGES ELSE 0
      recentMessages == SubSeq(msgs, cut + 1, n)
      olderMessages == SubSeq(msgs, 1, cut)
      summaryMessage == [id |-> 0, role |-> "SYSTEM"]
  IN  IF shouldSummarize
        THEN IF Len(olderMessages) > 0
               THEN [messages |-> <<summaryMessage>> \o recentMessages, messageCount |-> n,
                     shouldSummarize |-> TRUE, hasSummary |-> TRUE,
                     summaryLength |-> generateConversationSummary(rawLength)]
               ELSE [messages |-> recentMessages, messageCount |-> n,
                     shouldSummarize |-> TRUE, hasSummary |-> FALSE, summaryLength |-> 0]
        ELSE [messages |-> msgs, messageCount |-> n, shouldSummarize |-> FALSE,
              hasSummary |-> FALSE, summaryLength |-> 0]

\* The row the turn adds for the user's message
saveUserMessage_window(msgs, threadId) ==
  LET managed == manageConversationHistory(ConversationMessages(msgs, threadId), 0).messages
  IN  Append([k \in 1..Len(managed) |-> <<threadId, managed[k].role>>], <<threadId, "USER">>)

saveUserMessage(msgs, threadId) == Append(msgs, <<threadId, "USER">>)

\* Session and thread checks, the user message, the title of a fresh thread,
\* the managed history (taken from the rows loaded with the thread, before the
\* user message was added), the first status event and the watchdog timer
TurnStart(user, threadId) ==
  /\ Quiet
  /\ last' = NoCall
  /\ UNCHANGED <<records, created, actions, statusLog>>
  /\ IF user = NoUser
       THEN /\ turn' = [NoTurn EXCEPT !.pc = "401", !.user = user]
            /\ UNCHANGED <<messages, ChatVars>>
       ELSE IF ThreadOwner[threadId] # user
         THEN /\ turn' = [NoTurn EXCEPT !.pc = "404", !.user = user]
              /\ UNCHANGED <<messages, ChatVars>>
         ELSE /\ started < MaxTurns
              /\ started' = started + 1
              /\ messages' = saveUserMessage(messages, threadId)
              /\ titleWrites' = IF Len(ConversationMessages(messages, threadId)) + 1 = 1
                                  THEN titleWrites + 1 ELSE titleWrites
              /\ \E rawLength \in SummaryLengths :
                   window' = manageConversationHistory(
                               ConversationMessages(messages, threadId), rawLength)
              /\ turn' = safeEnqueue([NoTurn EXCEPT !.pc = "streaming", !.user = user,
                                                    !.threadId = threadId, !.timeout = TRUE],
                                     "status")

\* The client goes away while the turn is streaming: the stream is cancelled
TurnClientClose ==
  /\ turn.pc = "streaming" /\ ~turn.cancelled
  /\ turn' = [turn EXCEPT !.cancelled = TRUE]
  /\ UNCHANGED <<records, created, actions, statusLog, messages, last, Index, ChatVars, starts, Later>>

\* One iteration of the relay loop: the timer is cleared, the delta relayed
relay_keepsTimer(t) == safeEnqueue([t EXCEPT !.chunks = @ + 1], "chunk")

relay(t) == safeEnqueue([t EXCEPT !.timeout = FALSE, !.chunks = @ + 1], "chunk")

TurnChunk ==
  /\ turn.pc = "streaming" /\ ~turn.failed /\ turn.chunks < MaxDeltas
  /\ turn' = relay(turn)
  /\ UNCHANGED <<records, created, actions, statusLog, messages, last, Index, ChatVars, starts, Later>>

\* The provider call fails: streamChat yields the failure as one more delta
\* ("Error: ...") and its generator returns
TurnProviderError ==
  /\ turn.pc = "streaming" /\ ~turn.failed
  /\ turn' = [relay(turn) EXCEPT !.failed = TRUE]
  /\ UNCHANGED <<records, created, actions, statusLog, messages, last, Index, ChatVars, starts, Later>>

\* The 60 s timer callback; the timer is pending only until the first delta
watchdog_keepsOpen(t) ==
  IF t.chunks = 0 /\ ~t.isClosed
    THEN [safeEnqueue(t, "error") EXCEPT !.timeout = FALSE]
    ELSE [t EXCEPT !.timeout = FALSE]

watchdog(t) ==
  IF t.chunks = 0 /\ ~t.isClosed
    THEN [safeClose(safeEnqueue(t, "error")) EXCEPT !.timeout = FALSE]
    ELSE [t EXCEPT !.timeout = FALSE]

TurnWatchdog ==
  /\ turn.pc = "streaming" /\ turn.timeout
  /\ turn' = watchdog(turn)
  /\ UNCHANGED <<records, created, actions, statusLog, messages, last, Index, ChatVars, starts, Later>>

TurnFaults == {"none", "createAction", "saveMessage"}

\* The catch block of the stream
streamCatch(t) == IF ~t.isClosed THEN safeClose(safeEnqueue(t, "error")) ELSE t

\* The stream has completed: parse, persist the proposal, send the events,
\* persist the assistant message
TurnFinish(raw, hasCitations, fault) ==
  LET parsed == IF turn.chunks = 0 THEN Null ELSE parseAssistantResponse(raw)
      proposal == isActionProposal(parsed)
      t0 == [turn EXCEPT !.timeout = FALSE, !.pc = "done"]
      createFails == proposal /\ fault = "createAction"
      t1 == IF proposal /\ ~createFails
              THEN safeEnqueue([t0 EXCEPT !.savedAction = Len(actions) + 1], "action_proposal")
              ELSE t0
      t2 == IF hasCitations THEN safeEnqueue(t1, "citations") ELSE t1
      saveFails == fault = "saveMessage"
      t3 == safeClose(safeEnqueue([t2 EXCEPT !.savedMessage = TRUE], "done"))
  IN
  /\ turn.pc = "streaming"
  /\ proposal => Len(actions) < MaxActions
  /\ IF proposal /\ ~createFails
       THEN /\ actions' = Append(actions, NewAction(turn.threadId, parsed.actionType,
                                                    parsed.payload))
            /\ statusLog' = Append(statusLog, <<"PROPOSED">>)
       ELSE UNCHANGED <<actions, statusLog>>
  /\ IF createFails THEN turn' = streamCatch(t0) /\ UNCHANGED messages
     ELSE IF saveFails THEN turn' = streamCatch(t2) /\ UNCHANGED messages
     ELSE turn' = t3 /\ messages' = Append(messages, <<turn.threadId, "ASSISTANT">>)
  /\ UNCHANGED <<records, created, last, ChatVars>>

(* ------------------------------------------------------------------------ *)
(* Specification: requests are served one at a time                         *)
(* ------------------------------------------------------------------------ *)
Init ==
  /\ records = SeedRecords
  /\ created = 0
  /\ actions = <<>>
  /\ statusLog = <<>>
  /\ messages = <<>>
  /\ last = NoCall
  /\ turn = NoTurn
  /\ embeddings = {}
  /\ found = NoSearch
  /\ started = 0
  /\ window = NoWindow
  /\ titleWrites = 0
  /\ starts = NoStarts
  /\ jobs = <<>>
  /\ race = <<>>
  /\ auth = <<>>
  /\ rate = <<>>

Propose ==
  \E user \in Sessions, th \in ThreadIds, ap \in Requests \cup {<<"BOGUS", EmptyPayload>>} :
    proposeAction(user, th, ap[1], ap[2]) /\ UNCHANGED <<Index, ChatVars, starts, Later>>

Confirm ==
  \E user \in Sessions, aid \in ActionIds :
    \E f \in ConfirmFaultsAt(user, aid) :
      confirmAction(user, aid, f[1], f[2]) /\ UNCHANGED <<Index, ChatVars, starts, Later>>

Cancel ==
  \E user \in Sessions, aid \in ActionIds :
    \E fault \in CancelFaultsAt(user, aid) :
      cancelAction(user, aid, fault) /\ UNCHANGED <<Index, ChatVars, starts, Later>>

Start == \E user \in Sessions, th \in ThreadIds : TurnStart(user, th) /\ UNCHANGED <<Index, starts, Later>>

Finish ==
  \E raw \in RawOutputs, hasCitations \in BOOLEAN, fault \in TurnFaults :
    TurnFinish(raw, hasCitations, fault) /\ UNCHANGED <<Index, starts, Later>>

Next ==
  \/ Propose
  \/ Confirm
  \/ Cancel
  \/ Start
  \/ TurnChunk
  \/ TurnProviderError
  \/ TurnWatchdog
  \/ Finish

Spec == Init /\ [][Next]_vars

(* ------------------------------------------------------------------------ *)
(* Specification: chat turns on a thread that already has a history         *)
(* ------------------------------------------------------------------------ *)
\* Numbers of messages the thread holds before the first turn
HistoryLengths == {0, 13, 14, 15, 16, 20, 21, 22}

\* An earlier conversation: user and assistant messages alternate
History(n) == [i \in 1..n |-> <<"th1", IF i % 2 = 1 THEN "USER" ELSE "ASSISTANT">>]

InitThread ==
  /\ records = SeedRecords
  /\ created = 0
  /\ actions = <<>>
  /\ statusLog = <<>>
  /\ messages \in {History(n) : n \in HistoryLengths}
  /\ last = NoCall
  /\ turn = NoTurn
  /\ embeddings = {}
  /\ found = NoSearch
  /\ started = 0
  /\ window = NoWindow
  /\ titleWrites = IF Len(messages) = 0 THEN 0 ELSE 1
  /\ starts = NoStarts
  /\ jobs = <<>>
  /\ race = <<>>
  /\ auth = <<>>
  /\ rate = <<>>

NextThread ==
  \/ Start
  \/ TurnChunk
  \/ TurnProviderError
  \/ TurnClientClose
  \/ TurnWatchdog
  \/ Finish

SpecThread == InitThread /\ [][NextThread]_vars

(* ------------------------------------------------------------------------ *)
(* Properties of the chat turn                                              *)
(* ------------------------------------------------------------------------ *)
Count(x, seq) == Cardinality({i \in 1..Len(seq) : seq[i] = x})

InSeq(x, seq) == \E i \in 1..Len(seq) : seq[i] = x

\* C11: when the provider call fails, the turn ends with exactly one error
\* event and no done event, and the failure text is not relayed as a chunk:
\* a finished turn whose provider call failed has one error event, no done
\* event, and no more chunk events than deltas the model produced.
C11_ProviderFailureIsError ==
  (turn.pc = "done" /\ turn.failed /\ ~turn.cancelled)
    => /\ Count("error", turn.events) = 1
       /\ Count("done", turn.events) = 0
       /\ Count("chunk", turn.events) < turn.chunks

\* C12: the watchdog acts only while no delta has arrived: once the first
\* delta has been relayed the timer is no longer pending, and no step of a
\* turn that has received a delta adds an error event to the open stream or
\* closes a stream the client still holds open.
C12_WatchdogOnlyBeforeFirstDelta ==
  /\ []((turn.pc = "streaming" /\ turn.chunks > 0) => ~turn.timeout)
  /\ [][(turn.pc = "streaming" /\ turn'.pc = "streaming" /\ turn.chunks > 0)
          => /\ Count("error", turn'.events) = Count("error", turn.events)
             /\ (turn'.isClosed => (turn.isClosed \/ turn.cancelled))]_vars

\* A delta has been relayed to an open stream and the timer is cleared
C12_Witness ==
  /\ turn.pc = "streaming" /\ turn.chunks > 0
  /\ ~turn.isClosed /\ ~turn.timeout
  /\ Count("chunk", turn.events) = turn.chunks

Rank(event) ==
  CASE event = "status" -> 0
    [] event = "chunk" -> 1
    [] event = "action_proposal" -> 2
    [] event = "citations" -> 3
    [] OTHER -> 4

\* C13: the events of a turn come in the order status, chunks, at most one
\* action_proposal, at most one citations, and a terminal event last; an
\* action_proposal is sent only when its action row exists, and done only
\* when the assistant message is stored.
C13_EventOrder ==
  LET ev == turn.events IN
  /\ Len(ev) > 0 => ev[1] = "status"
  /\ \A i, j \in 1..Len(ev) :
       i < j => /\ Rank(ev[i]) <= Rank(ev[j])
                /\ Rank(ev[i]) = Rank(ev[j]) => ev[i] = "chunk"
  /\ InSeq("action_proposal", ev)
       => /\ turn.savedAction \in 1..Len(actions)
          /\ actions[turn.savedAction].threadId = turn.threadId
  /\ InSeq("done", ev)
       => /\ turn.savedMessage
          /\ Len(messages) > 0
          /\ messages[Len(messages)] = <<turn.threadId, "ASSISTANT">>

\* A turn that sent every kind of event
C13_Witness ==
  turn.events = <<"status", "chunk", "action_proposal", "citations", "done">>

\* C14: once the stream is closed or the client is gone, later writes and
\* closes change nothing the client sees and the stream stays closed; the
\* client sees at most one terminal event and nothing after it.
C14_ClosedStreamStaysSilent ==
  /\ [](LET ev == turn.events IN
          /\ Count("error", ev) + Count("done", ev) <= 1
          /\ \A i \in 1..Len(ev) : ev[i] \in {"error", "done"} => i = Len(ev))
  /\ [][(turn.pc = "streaming" /\ turn'.pc \in {"streaming", "done"}
           /\ (turn.isClosed \/ turn.cancelled))
          => /\ turn'.events = turn.events
             /\ turn.isClosed => turn'.isClosed]_vars

\* The watchdog closed the stream, deltas arrived afterwards and the turn
\* ran to its end
C14_Witness ==
  /\ turn.pc = "done" /\ turn.isClosed /\ turn.savedMessage
  /\ turn.chunks > 0
  /\ turn.events = <<"status", "error">>

(* ------------------------------------------------------------------------ *)
(* Properties of the conversation window                                    *)
(* ------------------------------------------------------------------------ *)
\* The window entries w are the stored rows from position from on, unchanged
Verbatim(w, from) ==
  \A k \in 1..Len(w) :
    /\ from + k - 1 \in 1..Len(messages)
    /\ w[k] = [id |-> from + k - 1, role |-> messages[from + k - 1][2]]

Summaries(w) == {k \in 1..Len(w) : w[k].role = "SYSTEM"}

Least(a, b) == IF a < b THEN a ELSE b

\* C15: the managed history of 14 messages is that history unmodified; the
\* managed history of 15 or more messages is one synthetic system summary
\* message followed by the most recent 20 messages verbatim, with a summary
\* text of at most 500 characters; for 16 messages that is 20 verbatim
\* messages after the summary.
C15_WindowFrom15 ==
  LET n == window.messageCount
      w == window.messages
  IN  /\ n = 14 => (Len(w) = n /\ Verbatim(w, 1))
      /\ n >= 15 => /\ Summaries(w) = {1}
                    /\ Len(w) = 1 + Least(n, 20)
                    /\ Verbatim(Tail(w), n - Least(n, 20) + 1)
                    /\ window.summaryLength <= 500
      /\ n = 16 => Len(w) = 21

\* C15 (amended): the managed history of at most 20 messages is that history
\* unmodified, without a summary message; the managed history of more than 20
\* messages is one synthetic system summary message followed by the most
\* recent 20 messages verbatim, with a summary text of at most 500 characters.
C15_WindowFrom21 ==
  LET n == window.messageCount
      w == window.messages
  IN  /\ n <= 20 => (Len(w) = n /\ Verbatim(w, 1) /\ Summaries(w) = {})
      /\ n > 20 => /\ Summaries(w) = {1}
                   /\ Len(w) = 21
                   /\ Verbatim(Tail(w), n - 20 + 1)
                   /\ window.hasSummary
                   /\ window.summaryLength <= 500

\* A history of more than 20 messages whose summary had to be cut
C15_Witness ==
  /\ turn.pc = "streaming"
  /\ window.messageCount > 20 /\ window.hasSummary
  /\ window.summaryLength = 500

\* C16: the stored messages are append-only and never hold the synthetic
\* summary: every step leaves the stored sequence as it is or appends the
\* user message of a starting turn or the assistant message of a finishing
\* one, and every stored message has role USER or ASSISTANT.
C16_AppendOnly ==
  /\ [](\A i \in 1..Len(messages) : messages[i][2] \in {"USER", "ASSISTANT"})
  /\ [][\/ messages' = messages
        \/ /\ turn.pc # "streaming" /\ turn'.pc = "streaming"
           /\ messages' = Append(messages, <<turn'.threadId, "USER">>)
        \/ /\ turn.pc = "streaming" /\ turn'.pc = "done"
           /\ messages' = Append(messages, <<turn.threadId, "ASSISTANT">>)]_vars

\* A turn whose window carried the summary message stored its two messages
C16_Witness ==
  /\ turn.pc = "done" /\ turn.savedMessage
  /\ window.hasSummary
  /\ Len(messages) = window.messageCount + 2

(* ------------------------------------------------------------------------ *)
(* Specification: concurrent chat requests opening on one fresh thread      *)
(* ------------------------------------------------------------------------ *)
\* Each request of the thread's owner runs the opening of the handler one
\* database call at a time: the user message is created, the messages of the
\* thread are counted, the thread is updated. Other requests run in between.
StartCreate(p) ==
  /\ starts[p].pc = "idle"
  /\ messages' = saveUserMessage(messages, "th1")
  /\ starts' = [starts EXCEPT ![p].pc = "created"]
  /\ UNCHANGED <<records, created, actions, statusLog, last, turn, Index, ChatVars, Later>>

StartCount(p) ==
  /\ starts[p].pc = "created"
  /\ starts' = [starts EXCEPT ![p].pc = "counted",
                              ![p].messageCount = Len(ConversationMessages(messages, "th1"))]
  /\ UNCHANGED <<records, created, actions, statusLog, messages, last, turn, Index, ChatVars,
                 Later>>

StartUpdate(p) ==
  /\ starts[p].pc = "counted"
  /\ titleWrites' = IF starts[p].messageCount = 1 THEN titleWrites + 1 ELSE titleWrites
  /\ starts' = [starts EXCEPT ![p].pc = "updated"]
  /\ UNCHANGED <<records, created, actions, statusLog, messages, last, turn, Index,
                 started, window, Later>>

InitTitle ==
  /\ records = SeedRecords
  /\ created = 0
  /\ actions = <<>>
  /\ statusLog = <<>>
  /\ messages = <<>>
  /\ last = NoCall
  /\ turn = NoTurn
  /\ embeddings = {}
  /\ found = NoSearch
  /\ started = 0
  /\ window = NoWindow
  /\ titleWrites = 0
  /\ starts = NoStarts
  /\ jobs = <<>>
  /\ race = <<>>
  /\ auth = <<>>
  /\ rate = <<>>

Create == \E p \in Procs : StartCreate(p)

CountMessages == \E p \in Procs : StartCount(p)

Update == \E p \in Procs : StartUpdate(p)

NextTitle ==
  \/ Create
  \/ CountMessages
  \/ Update

SpecTitle == InitTitle /\ [][NextTitle]_vars

\* C17: whatever the interleaving of the chat turns on a thread, the title
\* is regenerated exactly once: never more than once, and once every request
\* has updated the thread it has been regenerated.
C17_TitleOnce ==
  /\ titleWrites <= 1
  /\ (\A p \in Procs : starts[p].pc = "updated") => titleWrites = 1

(* ------------------------------------------------------------------------ *)
(* Properties of the action state machine                                   *)
(* ------------------------------------------------------------------------ *)
Rejected == {"unauthorized", "notfound", "badstatus", "threw"}

Store == <<records, created, actions, statusLog>>

\* C1: a confirm call on an action whose stored status is Executed, Failed,
\* Cancelled or Confirmed is rejected and changes neither the action nor any
\* business record; a cancel call on an Executed action is rejected as well
\* and the status stays Executed.
C1_SettledActionRejects ==
  [][(/\ last'.op \in {"confirm", "cancel"}
      /\ StatusOf(actions, last'.aid) \in {"EXECUTED", "FAILED", "CANCELLED", "CONFIRMED"})
       => (last'.outcome \in Rejected /\ Store' = Store)]_vars

C1_Witness ==
  /\ last.op = "confirm" /\ last.outcome = "badstatus"
  /\ StatusOf(actions, last.aid) = "EXECUTED" /\ last.user = ThreadOwner[actions[last.aid].threadId]

Transitions ==
  {<<"PROPOSED", "CONFIRMED">>, <<"CONFIRMED", "EXECUTED">>,
   <<"CONFIRMED", "FAILED">>, <<"PROPOSED", "CANCELLED">>}

\* C2: every action starts in Proposed and its status only moves along
\* Proposed->Confirmed, Confirmed->Executed, Confirmed->Failed or
\* Proposed->Cancelled, so Executed, Failed and Cancelled are final.
C2_OneWay ==
  \A aid \in 1..Len(statusLog) :
    /\ statusLog[aid][1] = "PROPOSED"
    /\ \A i \in 1..(Len(statusLog[aid]) - 1) :
         <<statusLog[aid][i], statusLog[aid][i + 1]>> \in Transitions

\* C3: business records change only inside a confirm call on a Proposed
\* action; a chat turn, a propose call and a cancel call leave them as
\* they are.
C3_OnlyConfirmWrites ==
  [][(records' # records \/ created' # created)
       => (/\ last'.op = "confirm"
           /\ last'.wrote
           /\ StatusOf(actions, last'.aid) = "PROPOSED")]_vars

C3_Witness ==
  /\ turn.pc = "done" /\ turn.savedAction # 0
  /\ StatusOf(actions, turn.savedAction) = "PROPOSED"
  /\ records = SeedRecords

NotOwner(user, aid) ==
  \/ user = NoUser
  \/ aid \in 1..Len(actions) /\ ThreadOwner[actions[aid].threadId] # user

\* C4: a confirm or cancel call by a user who does not own the thread of the
\* action, or without an authenticated user, is rejected with an error and
\* leaves the action and all business records unchanged.
C4_ForeignCallerRejected ==
  [][(last'.op \in {"confirm", "cancel"} /\ NotOwner(last'.user, last'.aid))
       => (last'.outcome \in Rejected /\ Store' = Store)]_vars

C4_Witness ==
  /\ last.op = "cancel" /\ last.outcome = "notfound"
  /\ last.user \in Users /\ last.aid \in 1..Len(actions)
  /\ ThreadOwner[actions[last.aid].threadId] # last.user
  /\ actions[last.aid].status = "PROPOSED"

\* C7: every persisted action has a payload that passes validatePayload for
\* its actionType.
C7_PersistedPayloadValid ==
  \A aid \in 1..Len(actions) :
    validatePayload(actions[aid].actionType, actions[aid].payload)

\* C8: an accepted confirm call leaves the action Executed (executedAt set,
\* mutation applied, success) or Failed (errorMsg set, failure reported),
\* never Confirmed.
C8_ConfirmSettles ==
  /\ \A aid \in 1..Len(actions) : actions[aid].status # "CONFIRMED"
  /\ (last.op = "confirm" /\ last.pre = "PROPOSED" /\ last.outcome \notin Rejected)
       => \/ /\ actions[last.aid].status = "EXECUTED" /\ actions[last.aid].executedAt
             /\ last.wrote /\ last.outcome = "ok"
          \/ /\ actions[last.aid].status = "FAILED" /\ actions[last.aid].errorMsg
             /\ last.outcome = "failed"

\* C10: a chat turn that emitted an error event persists no assistant
\* message and no action proposal.
C10_ErrorPersistsNothing ==
  (turn.pc = "done" /\ InSeq("error", turn.events))
    => (~turn.savedMessage /\ turn.savedAction = 0)

\* C28: a confirm call that ends with the action Failed (success = false)
\* has created, updated or deleted no business record.
C28_FailedWroteNothing ==
  (last.op = "confirm" /\ last.outcome = "failed"
     /\ StatusOf(actions, last.aid) = "FAILED")
    => ~last.wrote

(* ------------------------------------------------------------------------ *)
(* Executors over every action type: one stored Proposed action drawn from  *)
(* the whole payload universe, confirmed or cancelled with no               *)
(* infrastructure fault.                                                    *)
(* ------------------------------------------------------------------------ *)
InitExec ==
  /\ records = SeedRecords
  /\ created = 0
  /\ \E pr \in Proposals, threadId \in ThreadIds :
       actions = <<NewAction(threadId, pr[1], pr[2])>>
  /\ statusLog = <<(<<"PROPOSED">>)>>
  /\ messages = <<>>
  /\ last = NoCall
  /\ turn = NoTurn
  /\ embeddings = {}
  /\ found = NoSearch
  /\ started = 0
  /\ window = NoWindow
  /\ titleWrites = 0
  /\ starts = NoStarts
  /\ jobs = <<>>
  /\ race = <<>>
  /\ auth = <<>>
  /\ rate = <<>>

ConfirmExec ==
  \E user \in Sessions, aid \in ActionIds :
    confirmAction(user, aid, "none", FALSE) /\ UNCHANGED <<Index, ChatVars, starts, Later>>

CancelExec ==
  \E user \in Sessions, aid \in ActionIds :
    cancelAction(user, aid, "none") /\ UNCHANGED <<Index, ChatVars, starts, Later>>

NextExec ==
  \/ ConfirmExec
  \/ CancelExec

SpecExec == InitExec /\ [][NextExec]_vars

BulkTypes == {"BULK_UPDATE_DEALS", "BULK_UPDATE_TASKS", "BULK_UPDATE_CONTACTS"}

TargetType(actionType) ==
  CASE actionType \in {"UPDATE_DEAL_STAGE", "DELETE_DEAL", "BULK_UPDATE_DEALS"} -> "DEAL"
    [] actionType \in {"UPDATE_CONTACT", "DELETE_CONTACT", "BULK_UPDATE_CONTACTS"} -> "CONTACT"
    [] actionType \in {"UPDATE_COMPANY", "DELETE_COMPANY"} -> "COMPANY"
    [] actionType \in {"UPDATE_TASK", "DELETE_TASK", "BULK_UPDATE_TASKS"} -> "TASK"
    [] actionType = "DELETE_NOTE" -> "NOTE"
    [] OTHER -> None

\* The <<type, id>> pairs a payload refers to
RefsOf(actionType, p) ==
  {<<TargetType(actionType), id>> : id \in (Range(p.ids) \cup {p.id}) \ {None}}
    \cup {<<"COMPANY", id>> : id \in {p.companyId} \ {None}}
    \cup {<<"CONTACT", id>> : id \in {p.contactId, p.relatedId} \ {None}}

AllOwned(refs, userId, recs) == \A ref \in refs : Owned(recs, ref[1], ref[2], userId)

\* The step is a confirm call that got past the guards on a Proposed action
ConfirmRan ==
  /\ last'.op = "confirm"
  /\ last'.aid \in 1..Len(actions)
  /\ actions[last'.aid].status = "PROPOSED"
  /\ last'.outcome \notin Rejected

\* C5: for every action type, a confirm call whose payload refers to a record
\* the confirming user does not own (target id, listed ids, companyId,
\* contactId, relatedId) ends Failed and writes nothing.
C5_WritesOnlyOwned ==
  [][(ConfirmRan /\ ~AllOwned(RefsOf(actions[last'.aid].actionType,
                                     actions[last'.aid].payload), last'.user, records))
       => (/\ records' = records /\ created' = created
           /\ actions'[last'.aid].status = "FAILED")]_vars

\* C6: a bulk update with an id the confirming user does not own updates no
\* record and ends Failed; with all ids owned it updates every listed record.
C6_BulkAllOrNothing ==
  [][(ConfirmRan /\ actions[last'.aid].actionType \in BulkTypes
        /\ Len(actions[last'.aid].payload.ids) > 0)
       => LET a == actions[last'.aid]
              ids == Range(a.payload.ids)
              owned == \A id \in ids : Owned(records, TargetType(a.actionType), id, last'.user)
              companyOk == a.payload.companyId = None
                             \/ Owned(records, "COMPANY", a.payload.companyId, last'.user)
          IN
          /\ ~owned => (records' = records /\ actions'[last'.aid].status = "FAILED")
          /\ (owned /\ companyOk)
               => (\A id \in ids : records'[id].ver = records[id].ver + 1)]_vars

(* ------------------------------------------------------------------------ *)
(* Retrieval: semanticSearch and its keyword fallback                       *)
(* Thresholds are in tenths (7 stands for 0.7), cosine similarity and        *)
(* freshness in hundredths, scores in ten-thousandths.                      *)
(* ------------------------------------------------------------------------ *)
TOP_K == 8
MIN_SIMILARITY == 3
KEYWORD_SCORE == 7
FRESHNESS_WEIGHT == 15
FRESHNESS_DAYS == 30

\* A threshold in tenths as a score
Scale(tenths) == tenths * 1000

\* An option the caller did not supply
Absent == -1

SourceTypes == <<"COMPANY", "CONTACT", "DEAL", "TASK", "NOTE">>

\* A document_embeddings row: cosine is the cosine similarity of its vector
\* to the query vector, age the days since its updatedAt
Row(sourceType, sourceId, ownerUserId, cosine, age) ==
  [sourceType |-> sourceType, sourceId |-> sourceId, ownerUserId |-> ownerUserId,
   cosine |-> cosine, age |-> age]

\* The similarity column of the query: cosine similarity blended with a
\* freshness that decays over 30 days and is 0 from then on
Score(row) ==
  LET decay == (row.age * 100) \div FRESHNESS_DAYS
      freshness == 100 - (IF decay < 100 THEN decay ELSE 100)
  IN  row.cosine * (100 - FRESHNESS_WEIGHT) + freshness * FRESHNESS_WEIGHT

\* Rows the embedding pipeline has written: the owner of a row is the owner
\* of its source record
EmbeddingRows ==
  {Row("COMPANY", "c1", "u1", 90, 0), Row("CONTACT", "k1", "u1", 50, 45),
   Row("CONTACT", "k2", "u2", 90, 0), Row("TASK", "t1", "u1", 10, 0),
   Row("TASK", "t3", "u1", 50, 90)}

\* options: topK and minSimilarity are Absent when not supplied (minSimilarity
\* in tenths); hasTypes says whether sourceTypes was supplied
Options(topK, hasTypes, sourceTypes, minSimilarity) ==
  [topK |-> topK, hasTypes |-> hasTypes, sourceTypes |-> sourceTypes,
   minSimilarity |-> minSimilarity]

SearchOptions ==
  {Options(k, ft[1], ft[2], m) :
     k \in {Absent, 2}, m \in {Absent, 0, 6},
     ft \in {<<FALSE, <<>> >>, <<TRUE, <<>> >>, <<TRUE, <<"TASK">> >>,
             <<TRUE, <<"CONTACT", "COMPANY">> >>, <<TRUE, <<"BOGUS">> >>}}

\* The query text: "" has no term, "old" and "ol" occur in unchanged records,
\* "zzz" in none
Queries == {"", "old", "ol", "zzz"}

\* query.toLowerCase().split(/\s+/): the terms of a query
Terms(query) == IF query = "" THEN {} ELSE {query}

TermLength(term) == IF term = "ol" THEN 2 ELSE 3

\* contains, mode insensitive
Contains(text, term) == <<text, term>> \in {<<"old", "old">>, <<"old", "ol">>, <<"new", "new">>}

\* checkOllamaHealth and generateEmbedding: the embedding model is there and
\* answers, is missing, or fails to embed the query
Health == {"ok", "noModel", "noVector"}

Result(sourceType, sourceId, similarity, entity, row) ==
  [sourceType |-> sourceType, sourceId |-> sourceId, similarity |-> similarity,
   entity |-> entity, row |-> row]

\* findFirst by id and owner: FALSE stands for null
getEntityDetails(sourceType, sourceId, userId, recs) ==
  sourceType \in Range(SourceTypes) /\ Owned(recs, sourceType, sourceId, userId)

Take(seq, n) == SubSeq(seq, 1, IF Len(seq) < n THEN Len(seq) ELSE n)

\* ORDER BY similarity DESC: every order the database may return
RECURSIVE BySimilarity(_)
BySimilarity(rows) ==
  IF rows = {} THEN {<<>>}
  ELSE UNION {{<<m>> \o rest : rest \in BySimilarity(rows \ {m})} :
                m \in {r \in rows : \A o \in rows : Score(o) <= Score(r)}}

\* findMany without orderBy: every order the database may return
RECURSIVE AnyOrder(_)
AnyOrder(ids) ==
  IF ids = {} THEN {<<>>}
  ELSE UNION {{<<m>> \o rest : rest \in AnyOrder(ids \ {m})} : m \in ids}

\* The search terms keywordSearch keeps: those longer than two characters
searchTerms(query) == {t \in Terms(query) : TermLength(t) > 2}

\* One per-type block of keywordSearch
keywordBlock(type, query, userId, options, topK, recs) ==
  IF options.hasTypes /\ type \notin Range(options.sourceTypes) THEN {<<>>}
  ELSE {[i \in 1..Len(Take(ids, topK)) |->
           Result(type, ids[i], Scale(KEYWORD_SCORE), TRUE, FALSE)] :
          ids \in AnyOrder({id \in SeedIds \cup Range(NewIds) :
                              /\ Owned(recs, type, id, userId)
                              /\ \E t \in searchTerms(query) : Contains(recs[id].val, t)})}

\* The set of result lists keywordSearch may return
keywordSearch(query, userId, options, recs) ==
  LET topK == IF options.topK \notin {Absent, 0} THEN options.topK ELSE TOP_K
      B(i) == keywordBlock(SourceTypes[i], query, userId, options, topK, recs)
  IN
  IF searchTerms(query) = {} THEN {<<>>}
  ELSE {Take(b1 \o b2 \o b3 \o b4 \o b5, topK) :
          b1 \in B(1), b2 \in B(2), b3 \in B(3), b4 \in B(4), b5 \in B(5)}

\* The rows the SQL query ranks: those of the user, of the valid source
\* types asked for
ScopedRows(userId, options, embs) ==
  LET filteredSourceTypes == SelectSeq(options.sourceTypes,
                                       LAMBDA t : t \in Range(SourceTypes))
  IN  {e \in embs :
         /\ e.ownerUserId = userId
         /\ Len(filteredSourceTypes) > 0 => e.sourceType \in Range(filteredSourceTypes)}

\* The SQL query and the loop after it
embeddingSearch(userId, options, recs, embs) ==
  LET topK == IF options.topK \notin {Absent, 0} THEN options.topK ELSE TOP_K
      minSimilarity == IF options.minSimilarity \notin {Absent, 0}
                         THEN Scale(options.minSimilarity)
                         ELSE Scale(MIN_SIMILARITY)
      rows == ScopedRows(userId, options, embs)
      Keep(e) == Score(e) >= minSimilarity
      Enrich(results) ==
        [i \in 1..Len(results) |->
           Result(results[i].sourceType, results[i].sourceId, Score(results[i]),
                  getEntityDetails(results[i].sourceType, results[i].sourceId, userId, recs),
                  TRUE)]
  IN
  {Enrich(SelectSeq(Take(ordered, topK), Keep)) : ordered \in BySimilarity(rows)}

\* The set of result lists semanticSearch may return
semanticSearch(query, userId, options, health, recs, embs) ==
  IF health # "ok" THEN keywordSearch(query, userId, options, recs)
  ELSE embeddingSearch(userId, options, recs, embs)

\* A search reads the index and the records and writes neither: one call is
\* followed per behaviour
Search ==
  /\ found = NoSearch
  /\ \E query \in Queries, userId \in Users, options \in SearchOptions, health \in Health :
    \E results \in semanticSearch(query, userId, options, health, records, embeddings) :
      /\ found' = [path |-> IF health = "ok" THEN "embedding" ELSE "keyword",
                   query |-> query, userId |-> userId, topK |-> options.topK,
                   minSimilarity |-> options.minSimilarity,
                   hasTypes |-> options.hasTypes,
                   sourceTypes |-> options.sourceTypes, results |-> results]
      /\ UNCHANGED <<records, created, actions, statusLog, messages, last, turn, embeddings,
                     ChatVars, starts, Later>>

\* The index as earlier confirms left it: any of the rows above, with the
\* records as seeded or after DELETE_TASK removed t3
InitSearch ==
  /\ records \in {SeedRecords, DeleteRec(SeedRecords, "t3")}
  /\ created = 0
  /\ actions = <<>>
  /\ statusLog = <<>>
  /\ messages = <<>>
  /\ last = NoCall
  /\ turn = NoTurn
  /\ embeddings \in SUBSET EmbeddingRows
  /\ found = NoSearch
  /\ started = 0
  /\ window = NoWindow
  /\ titleWrites = 0
  /\ starts = NoStarts
  /\ jobs = <<>>
  /\ race = <<>>
  /\ auth = <<>>
  /\ rate = <<>>

NextSearch == Search

SpecSearch == InitSearch /\ [][NextSearch]_vars

\* C9: on the embedding path and on the keyword path, every result refers
\* to a source record owned by the requesting user and, when it comes from
\* an embedding row, to a row owned by that user; when sourceTypes is
\* supplied every result has a sourceType in it.
C9_SearchScoped ==
  \A i \in 1..Len(found.results) :
    LET r == found.results[i] IN
    /\ Owned(records, r.sourceType, r.sourceId, found.userId)
    /\ r.row => \E e \in embeddings :
                  /\ e.sourceType = r.sourceType /\ e.sourceId = r.sourceId
                  /\ e.ownerUserId = found.userId
    /\ found.hasTypes => r.sourceType \in Range(found.sourceTypes)

\* C18: on the keyword path every result has the fixed score 0.7, and for
\* each of the five source types that has an owned record whose text
\* contains a term of the query, such a record of that type is returned
\* (calls without a sourceTypes filter).
C18_KeywordFallbackTotal ==
  (found.path = "keyword" /\ ~found.hasTypes)
    => /\ \A i \in 1..Len(found.results) :
            found.results[i].similarity = Scale(KEYWORD_SCORE)
       /\ \A k \in 1..Len(SourceTypes) :
            LET Matches == {id \in SeedIds \cup Range(NewIds) :
                              /\ Owned(records, SourceTypes[k], id, found.userId)
                              /\ \E t \in Terms(found.query) : Contains(records[id].val, t)}
            IN  Matches # {}
                  => \E i \in 1..Len(found.results) :
                       /\ found.results[i].sourceType = SourceTypes[k]
                       /\ found.results[i].sourceId \in Matches

\* C19: on the embedding path the result is the rows of the user whose
\* blended score is at least minSimilarity (0.3 when absent), ordered by
\* descending score and truncated to topK (8 when absent).
C19_FilterThenTruncate ==
  found.path = "embedding"
    => LET options == Options(found.topK, found.hasTypes, found.sourceTypes,
                              found.minSimilarity)
           topK == IF found.topK = Absent THEN TOP_K ELSE found.topK
           minSimilarity == IF found.minSimilarity = Absent THEN Scale(MIN_SIMILARITY)
                            ELSE Scale(found.minSimilarity)
           kept == {e \in ScopedRows(found.userId, options, embeddings) :
                      Score(e) >= minSimilarity}
           Ids(seq) == [i \in 1..Len(seq) |-> seq[i].sourceId]
       IN  Ids(found.results) \in {Ids(Take(ordered, topK)) : ordered \in BySimilarity(kept)}

\* C20: in an embedding-path result, of two rows with the same cosine
\* similarity the one updated more recently stands before the older one, and
\* of two rows with the same updatedAt the one with the higher cosine
\* similarity stands before the other.
C20_RankingMonotone ==
  found.path = "embedding"
    => \A i, j \in 1..Len(found.results) :
         \A ri, rj \in embeddings :
           (/\ ri.sourceId = found.results[i].sourceId
            /\ rj.sourceId = found.results[j].sourceId)
             => /\ (ri.cosine = rj.cosine /\ ri.age < rj.age) => i < j
                /\ (ri.age = rj.age /\ ri.cosine > rj.cosine) => i < j

(* ------------------------------------------------------------------------ *)
(* Embedding pipeline (lib/embeddings.ts)                                   *)
(* ------------------------------------------------------------------------ *)
MAX_RETRIES == 3

\* generateContentText: the text of an entity, here its value and version;
\* the empty text for a source type it does not know
generateContentText(sourceType, entity) ==
  IF sourceType \in {"COMPANY", "CONTACT", "DEAL", "TASK", "NOTE"}
    THEN <<entity.val, entity.ver>>
    ELSE <<>>

\* What the calls of generateEmbedding do, attempt by attempt: a vector, null
\* or a throw; the provider is not asked again after a vector
AttemptPlans ==
  {plan \in [1..MAX_RETRIES -> {"vector", "null", "throw"}] :
     \A k \in 1..MAX_RETRIES :
       (\E j \in 1..(k - 1) : plan[j] = "vector") => plan[k] = "null"}

\* The loop of generateEmbeddingWithRetry from one attempt on
RECURSIVE retryFrom(_, _)
retryFrom(plan, attempt) ==
  IF attempt > MAX_RETRIES
    THEN [embedding |-> FALSE, calls |-> MAX_RETRIES, retryCount |-> MAX_RETRIES - 1]
  ELSE IF plan[attempt] = "vector"
    THEN [embedding |-> TRUE, calls |-> attempt, retryCount |-> attempt - 1]
  ELSE retryFrom(plan, attempt + 1)

\* generateEmbeddingWithRetry running every attempt whatever the provider returns
generateEmbeddingWithRetry_noStop(plan) ==
  [retryFrom(plan, 1) EXCEPT !.calls = MAX_RETRIES]

generateEmbeddingWithRetry(plan) == retryFrom(plan, 1)

\* The background task setImmediate holds: what the callback captured, where
\* it stands, the provider's answers it met, the calls it made, its result
Job(sourceType, sourceId, ownerUserId, contentText, pc, calls) ==
  [sourceType |-> sourceType, sourceId |-> sourceId, ownerUserId |-> ownerUserId,
   contentText |-> contentText, pc |-> pc, calls |-> calls,
   plan |-> [k \in 1..MAX_RETRIES |-> "null"], health |-> "none", returned |-> "none"]

\* onEntityMutated starting the embedding before it returns
onEntityMutated_inline(sourceType, sourceId, ownerUserId, entity) ==
  LET contentText == generateContentText(sourceType, entity) IN
  IF contentText = <<>> THEN <<>>
  ELSE <<Job(sourceType, sourceId, ownerUserId, contentText, "ready", 1)>>

\* onEntityMutated: the tasks it hands to setImmediate
onEntityMutated(sourceType, sourceId, ownerUserId, entity) ==
  LET contentText == generateContentText(sourceType, entity) IN
  IF contentText = <<>> THEN <<>>
  ELSE <<Job(sourceType, sourceId, ownerUserId, contentText, "queued", 0)>>

\* The onEntityMutated calls of the bulk executors, one per id in order
RECURSIVE bulkMutated(_, _, _)
bulkMutated(ids, userId, recs) ==
  IF ids = <<>> THEN <<>>
  ELSE LET id == Head(ids) IN
       (IF Exists(recs, id)
          THEN onEntityMutated(recs[id].type, id, userId, recs[id])
          ELSE <<>>)
         \o bulkMutated(Tail(ids), userId, recs)

\* The onEntityMutated calls of an executor that returned r: the create and
\* update executors call it on the row they wrote, the bulk executors on every
\* row again, the delete executors call nothing
mutated(actionType, p, userId, r) ==
  IF r.threw THEN <<>>
  ELSE CASE actionType \in {"CREATE_TASK", "CREATE_NOTE", "CREATE_DEAL",
                            "CREATE_CONTACT", "CREATE_COMPANY"} ->
              LET id == NewIds[r.created] IN
              onEntityMutated(r.recs[id].type, id, userId, r.recs[id])
         [] actionType \in {"UPDATE_DEAL_STAGE", "UPDATE_CONTACT", "UPDATE_COMPANY",
                            "UPDATE_TASK"} ->
              onEntityMutated(r.recs[p.id].type, p.id, userId, r.recs[p.id])
         [] actionType \in {"BULK_UPDATE_DEALS", "BULK_UPDATE_TASKS",
                            "BULK_UPDATE_CONTACTS"} ->
              bulkMutated(p.ids, userId, r.recs)
         [] OTHER -> <<>>

\* INSERT ... ON CONFLICT ("sourceType", "sourceId") DO UPDATE: the conflicting
\* row keeps its owner and takes the new text
upsertRow(rows, job) ==
  LET old == {row \in rows : row.sourceType = job.sourceType /\ row.sourceId = job.sourceId}
      owner == IF old = {} THEN job.ownerUserId ELSE (CHOOSE row \in old : TRUE).ownerUserId
  IN (rows \ old) \cup {[sourceType |-> job.sourceType, sourceId |-> job.sourceId,
                           ownerUserId |-> owner, contentText |-> job.contentText]}

\* The callback of setImmediate starts, tasks in the order they were queued:
\* upsertEmbedding up to the INSERT, with the health check, the retries and
\* the metrics
JobStart(i, health, plan, metricsFail) ==
  /\ i \in 1..Len(jobs)
  /\ jobs[i].pc = "queued"
  /\ \A j \in 1..(i - 1) : jobs[j].pc # "queued"
  /\ LET job == jobs[i]
         g == generateEmbeddingWithRetry(plan)
     IN jobs' = [jobs EXCEPT ![i] =
          IF health = "none"
            THEN [job EXCEPT !.pc = "failed", !.health = health, !.returned = "false"]
          ELSE IF ~g.embedding \/ metricsFail
            THEN [job EXCEPT !.pc = "failed", !.health = health, !.plan = plan,
                             !.calls = g.calls, !.returned = "false"]
          ELSE [job EXCEPT !.pc = "ready", !.health = health, !.plan = plan,
                           !.calls = g.calls]]
  /\ UNCHANGED <<records, created, actions, statusLog, messages, last, turn,
                 embeddings, found, ChatVars, starts, race, auth, rate>>

\* upsertEmbedding from the INSERT on
JobWrite(i, dbFails) ==
  /\ i \in 1..Len(jobs)
  /\ jobs[i].pc = "ready"
  /\ IF dbFails
       THEN /\ jobs' = [jobs EXCEPT ![i].pc = "failed", ![i].returned = "false"]
            /\ UNCHANGED embeddings
       ELSE /\ jobs' = [jobs EXCEPT ![i].pc = "done", ![i].returned = "true"]
            /\ embeddings' = upsertRow(embeddings, jobs[i])
  /\ UNCHANGED <<records, created, actions, statusLog, messages, last, turn,
                 found, ChatVars, starts, race, auth, rate>>

\* confirmAction with the tasks its executor queued. A task touches only its
\* own state and the embedding rows, the rest of confirmAction only the action,
\* so a task step taken while confirmAction awaits its last write is the same
\* as one taken after it
ConfirmEmbed ==
  \E aid \in 1..Len(actions), fault \in {"none", "exec", "mark"} :
    LET a == actions[aid]
        r == executeAction(a.actionType, a.payload, "u1", records, created)
        ran == admit("u1", aid, FALSE) = "ok" /\ fault # "exec"
    IN
    /\ confirmAction("u1", aid, fault, FALSE)
    /\ jobs' = IF ran THEN jobs \o mutated(a.actionType, a.payload, "u1", r) ELSE jobs
    /\ UNCHANGED <<embeddings, found, ChatVars, starts, race, auth, rate>>

\* The actions waiting for confirmation, and one row per record that has text
InitEmbed ==
  /\ records = SeedRecords
  /\ created = 0
  /\ actions \in
       {<<NewAction("th1", "UPDATE_TASK", Payload(TRUE, "t1", <<>>, None, None, None)),
          NewAction("th1", "UPDATE_TASK", Payload(TRUE, "t1", <<>>, None, None, None))>>,
        <<NewAction("th1", "UPDATE_TASK", Payload(TRUE, "t1", <<>>, None, None, None)),
          NewAction("th1", "DELETE_TASK", Payload(TRUE, "t1", <<>>, None, None, None))>>,
        <<NewAction("th1", "CREATE_TASK", Payload(TRUE, None, <<>>, None, None, "k1")),
          NewAction("th1", "DELETE_CONTACT", Payload(TRUE, "k1", <<>>, None, None, None))>>,
        <<NewAction("th1", "BULK_UPDATE_DEALS", Payload(TRUE, None, <<"d1", "d3">>, None, None, None)),
          NewAction("th1", "DELETE_DEAL", Payload(TRUE, "d1", <<>>, None, None, None))>>}
  /\ statusLog = [aid \in 1..Len(actions) |-> <<"PROPOSED">>]
  /\ messages = <<>>
  /\ last = NoCall
  /\ turn = NoTurn
  /\ embeddings =
       {[sourceType |-> SeedRecords[id].type, sourceId |-> id,
         ownerUserId |-> SeedRecords[id].owner,
         contentText |-> generateContentText(SeedRecords[id].type, SeedRecords[id])] :
          id \in {"t1", "k1", "d1"}}
  /\ found = NoSearch
  /\ started = 0
  /\ window = NoWindow
  /\ titleWrites = 0
  /\ starts = NoStarts
  /\ jobs = <<>>
  /\ race = <<>>
  /\ auth = <<>>
  /\ rate = <<>>

NextEmbed ==
  \/ ConfirmEmbed
  \/ \E i \in 1..Len(jobs), health \in {"ok", "none"}, plan \in AttemptPlans,
        metricsFail \in BOOLEAN :
       JobStart(i, health, plan, metricsFail)
  \/ \E i \in 1..Len(jobs), dbFails \in BOOLEAN : JobWrite(i, dbFails)

SpecEmbed == InitEmbed /\ [][NextEmbed]_vars

\* The event loop runs every callback it holds
SpecEmbedFair ==
  /\ SpecEmbed
  /\ WF_vars(\E i \in 1..Len(jobs), health \in {"ok", "none"}, plan \in AttemptPlans,
                metricsFail \in BOOLEAN :
               JobStart(i, health, plan, metricsFail))
  /\ WF_vars(\E i \in 1..Len(jobs), dbFails \in BOOLEAN : JobWrite(i, dbFails))

(* ------------------------------------------------------------------------ *)
(* Properties of the embedding pipeline                                     *)
(* ------------------------------------------------------------------------ *)
RowsOf(id) == {row \in embeddings : row.sourceId = id}

\* An embedding row whose source record no longer exists
Orphan(id) == RowsOf(id) # {} /\ ~Exists(records, id)

\* C21: once a record is deleted, its embedding row is eventually removed:
\* no embedding row outlives its source record for good.
C21_DeletedSourceLosesEmbedding ==
  \A id \in SeedIds : Orphan(id) ~> ~Orphan(id)

Started(job) == job.pc # "queued"

\* C22: an upsert makes at most three calls to the provider, stops at the first
\* call that returns a vector, and returns false, writing no row, when every
\* attempt fails, when no provider is reachable or when the database write fails.
C22_UpsertBounded ==
  \A i \in 1..Len(jobs) :
    LET job == jobs[i] IN
    /\ job.calls <= MAX_RETRIES
    /\ job.returned \in {"none", "true", "false"}
    /\ (Started(job) /\ job.health = "none") => (job.calls = 0 /\ job.returned = "false")
    /\ (Started(job) /\ job.health = "ok") =>
         /\ job.calls >= 1
         /\ \A k \in 1..(job.calls - 1) : job.plan[k] # "vector"
         /\ (job.calls < MAX_RETRIES => job.plan[job.calls] = "vector")
         /\ ((\A k \in 1..MAX_RETRIES : job.plan[k] # "vector") => job.returned = "false")
    /\ (job.pc = "failed") <=> (job.returned = "false")
    /\ (job.pc = "done") <=> (job.returned = "true")

C22_FailureWritesNoRow ==
  [][\A i \in 1..Len(jobs) :
       (jobs[i].returned = "none" /\ jobs'[i].returned = "false")
         => embeddings' = embeddings]_vars

C22_UpsertContract == []C22_UpsertBounded /\ C22_FailureWritesNoRow

\* An upsert that stopped at the vector of its second call, and one that
\* returned false after the database refused the row
C22_Witness ==
  \E i \in 1..Len(jobs), j \in 1..Len(jobs) :
    /\ jobs[i].pc = "done" /\ jobs[i].calls = 2
    /\ jobs[j].pc = "failed" /\ jobs[j].health = "ok" /\ jobs[j].calls = 1

\* A step of confirmAction, and a step of a background task
ConfirmStep == last' # last \/ actions' # actions \/ records' # records
JobStep == Len(jobs') = Len(jobs) /\ jobs' # jobs

\* C23: the trigger only schedules: every task a confirmed action queued has
\* made no call and written no row when the trigger returns, and holds the text
\* of the record as committed; whatever a task later does changes neither the
\* records, nor the action's status, nor the result the confirm call returned.
C23_TriggerOnlySchedules ==
  [][/\ ConfirmStep =>
          /\ Len(jobs') >= Len(jobs)
          /\ \A i \in 1..Len(jobs) : jobs'[i] = jobs[i]
          /\ \A i \in (Len(jobs) + 1)..Len(jobs') :
               /\ jobs'[i].pc = "queued" /\ jobs'[i].calls = 0
               /\ Exists(records', jobs'[i].sourceId)
               /\ jobs'[i].contentText =
                    generateContentText(jobs'[i].sourceType, records'[jobs'[i].sourceId])
     /\ JobStep => UNCHANGED <<records, created, actions, statusLog, last>>]_vars

\* An action Executed and reported as succeeded although its task failed
C23_Witness ==
  /\ last.op = "confirm" /\ last.outcome = "ok"
  /\ StatusOf(actions, last.aid) = "EXECUTED"
  /\ \E i \in 1..Len(jobs) : jobs[i].pc = "failed" /\ jobs[i].calls = MAX_RETRIES

\* The last task queued for a record
Latest(id) ==
  LET of == {i \in 1..Len(jobs) : jobs[i].sourceId = id} IN
  CHOOSE i \in of : \A j \in of : j <= i

\* C29: when the tasks of a record have all finished, the row holds the text
\* of the record's latest mutation, whatever the order the tasks ran in.
C29_LatestMutationWins ==
  \A id \in RecIds :
    ((\E i \in 1..Len(jobs) : jobs[i].sourceId = id)
       /\ (\A i \in 1..Len(jobs) : jobs[i].sourceId = id => jobs[i].pc = "done"))
      => \A row \in RowsOf(id) : row.contentText = jobs[Latest(id)].contentText

(* ------------------------------------------------------------------------ *)
(* Concurrent confirm and cancel calls (server actions run per request,     *)
(* each await is a point where another request's step can run). race       *)
(* holds, per call in flight, its operation and action, where it stands,    *)
(* the status its findFirst read and whether its executor wrote             *)
(* ------------------------------------------------------------------------ *)
MaxCallers == 2
Callers == 1..MaxCallers

\* The executor's write, keyed by the record id alone: prisma update and
\* delete throw when no row has the id
writeById(a, userId, recs, n) ==
  CASE a.actionType \in {"UPDATE_DEAL_STAGE", "UPDATE_COMPANY", "UPDATE_TASK"} ->
         IF Exists(recs, a.payload.id)
           THEN Wrote(UpdateRecs(recs, {a.payload.id}, None), n)
           ELSE Threw(recs, n)
    [] a.actionType = "UPDATE_CONTACT" ->
         IF Exists(recs, a.payload.id)
           THEN Wrote(UpdateRecs(recs, {a.payload.id}, a.payload.companyId), n)
           ELSE Threw(recs, n)
    [] a.actionType \in {"DELETE_TASK", "DELETE_NOTE", "DELETE_DEAL", "DELETE_CONTACT",
                         "DELETE_COMPANY"} ->
         IF Exists(recs, a.payload.id)
           THEN Wrote(DeleteRec(recs, a.payload.id), n)
           ELSE Threw(recs, n)
    [] OTHER -> executeAction(a.actionType, a.payload, userId, recs, n)

\* prisma.assistantAction.update({ where: { id }, data: { status } })
writeStatus(aid, status) ==
  /\ actions' = [actions EXCEPT ![aid].status = status,
                                ![aid].executedAt = IF status = "EXECUTED" THEN TRUE ELSE @,
                                ![aid].errorMsg = IF status = "FAILED" THEN TRUE ELSE @]
  /\ statusLog' = [statusLog EXCEPT ![aid] = Append(@, status)]

\* findFirst, the owner comparison and the status comparison of either call
findAction(p) ==
  /\ race[p].pc = "idle"
  /\ race' = [race EXCEPT ![p].seen = actions[race[p].aid].status,
                          ![p].pc = IF actions[race[p].aid].status = "PROPOSED"
                                      THEN "admitted" ELSE "rejected"]
  /\ UNCHANGED <<records, created, actions, statusLog, messages, last, turn,
                 embeddings, found, ChatVars, starts, jobs, auth, rate>>

\* confirmAction: the CONFIRMED update
markConfirmed(p) ==
  /\ race[p].op = "confirm" /\ race[p].pc = "admitted"
  /\ writeStatus(race[p].aid, "CONFIRMED")
  /\ race' = [race EXCEPT ![p].pc = "confirmed"]
  /\ UNCHANGED <<records, created, messages, last, turn, embeddings, found,
                 ChatVars, starts, jobs, auth, rate>>

\* The executor's findFirst by id and owner; a miss throws into the catch of
\* confirmAction, which writes FAILED
executorCheck(p) ==
  LET a == actions[race[p].aid] IN
  /\ race[p].pc = "confirmed"
  /\ IF executeAction(a.actionType, a.payload, "u1", records, created).threw
       THEN /\ writeStatus(race[p].aid, "FAILED")
            /\ race' = [race EXCEPT ![p].pc = "failed"]
       ELSE /\ race' = [race EXCEPT ![p].pc = "checked"]
            /\ UNCHANGED <<actions, statusLog>>
  /\ UNCHANGED <<records, created, messages, last, turn, embeddings, found,
                 ChatVars, starts, jobs, auth, rate>>

\* The executor's create, update or delete
executorWrite(p) ==
  LET a == actions[race[p].aid]
      r == writeById(a, "u1", records, created)
  IN
  /\ race[p].pc = "checked"
  /\ records' = r.recs
  /\ created' = r.created
  /\ IF r.threw
       THEN /\ writeStatus(race[p].aid, "FAILED")
            /\ race' = [race EXCEPT ![p].pc = "failed"]
       ELSE /\ race' = [race EXCEPT ![p].pc = "wrote", ![p].ran = TRUE]
            /\ UNCHANGED <<actions, statusLog>>
  /\ UNCHANGED <<messages, last, turn, embeddings, found, ChatVars, starts, jobs,
                 auth, rate>>

\* confirmAction: the EXECUTED update
markExecuted(p) ==
  /\ race[p].pc = "wrote"
  /\ writeStatus(race[p].aid, "EXECUTED")
  /\ race' = [race EXCEPT ![p].pc = "done"]
  /\ UNCHANGED <<records, created, messages, last, turn, embeddings, found,
                 ChatVars, starts, jobs, auth, rate>>

\* cancelAction: the CANCELLED update
markCancelled(p) ==
  /\ race[p].op = "cancel" /\ race[p].pc = "admitted"
  /\ writeStatus(race[p].aid, "CANCELLED")
  /\ race' = [race EXCEPT ![p].pc = "done"]
  /\ UNCHANGED <<records, created, messages, last, turn, embeddings, found,
                 ChatVars, starts, jobs, auth, rate>>

\* The Proposed actions and the calls that arrive for them
InitRace ==
  /\ records = SeedRecords
  /\ created = 0
  /\ actions \in
       {<<NewAction("th1", "CREATE_TASK", Payload(TRUE, None, <<>>, None, None, "k1"))>>,
        <<NewAction("th1", "UPDATE_TASK", Payload(TRUE, "t1", <<>>, None, None, None))>>,
        <<NewAction("th1", "DELETE_TASK", Payload(TRUE, "t1", <<>>, None, None, None))>>,
        <<NewAction("th1", "UPDATE_TASK", Payload(TRUE, "t1", <<>>, None, None, None)),
          NewAction("th1", "DELETE_TASK", Payload(TRUE, "t1", <<>>, None, None, None))>>,
        <<NewAction("th1", "UPDATE_DEAL_STAGE", Payload(TRUE, "d1", <<>>, None, None, None)),
          NewAction("th1", "DELETE_DEAL", Payload(TRUE, "d1", <<>>, None, None, None))>>}
  /\ statusLog = [aid \in 1..Len(actions) |-> <<"PROPOSED">>]
  /\ messages = <<>>
  /\ last = NoCall
  /\ turn = NoTurn
  /\ embeddings = {}
  /\ found = NoSearch
  /\ started = 0
  /\ window = NoWindow
  /\ titleWrites = 0
  /\ starts = NoStarts
  /\ jobs = <<>>
  /\ race \in [Callers ->
                 {[op |-> op, aid |-> aid, pc |-> "idle", seen |-> "none", ran |-> FALSE] :
                    op \in {"confirm", "cancel"}, aid \in 1..Len(actions)}]
  /\ auth = <<>>
  /\ rate = <<>>

NextRace ==
  \E p \in Callers :
    \/ findAction(p)
    \/ markConfirmed(p)
    \/ executorCheck(p)
    \/ executorWrite(p)
    \/ markExecuted(p)
    \/ markCancelled(p)

SpecRace == InitRace /\ [][NextRace]_vars

\* The record an update or delete executor checks and then writes
TargetOf(a) ==
  IF a.actionType \in {"UPDATE_DEAL_STAGE", "UPDATE_CONTACT", "UPDATE_COMPANY", "UPDATE_TASK",
                       "DELETE_TASK", "DELETE_NOTE", "DELETE_DEAL", "DELETE_CONTACT",
                       "DELETE_COMPANY"}
    THEN a.payload.id
    ELSE None

\* C24: between an executor's ownership check and the write it guards no
\* other operation touches the record: check and write are one step.
C24_CheckAndWriteAtomic ==
  [][\A p \in Callers :
       (race[p].pc = "checked" /\ TargetOf(actions[race[p].aid]) # None)
         => \/ records'[TargetOf(actions[race[p].aid])]
                 = records[TargetOf(actions[race[p].aid])]
            \/ race'[p].pc # "checked"]_vars

\* The calls that passed the status check of confirmAction for an action
Passed(aid) ==
  {p \in Callers : race[p].op = "confirm" /\ race[p].aid = aid
                     /\ race[p].pc \notin {"idle", "rejected"}}

\* C26: of the confirm calls on one action at most one passes the status check
\* and runs the executor; the action's mutation is applied at most once.
C26_ExecutedAtMostOnce ==
  \A aid \in 1..Len(actions) :
    /\ Cardinality(Passed(aid)) <= 1
    /\ Cardinality({p \in Passed(aid) : race[p].ran}) <= 1

\* C27: of a confirm and a cancel on one action exactly one takes effect: an
\* action is never Cancelled with its mutation applied, and Cancelled never
\* follows Executed.
C27_ConfirmOrCancel ==
  \A aid \in 1..Len(actions) :
    /\ ~(actions[aid].status = "CANCELLED"
           /\ \E p \in Callers : race[p].op = "confirm" /\ race[p].aid = aid /\ race[p].ran)
    /\ \A i \in 1..(Len(statusLog[aid]) - 1) :
         ~(statusLog[aid][i] = "EXECUTED" /\ statusLog[aid][i + 1] = "CANCELLED")

(* ------------------------------------------------------------------------ *)
(* Credentials login (lib/auth.ts, authorize)                               *)
(* ------------------------------------------------------------------------ *)
MAX_FAILED_ATTEMPTS == 5
MaxAttempts == 6

\* One authorize call: its credentials, the row findUnique returned (of it the
\* lockout columns; lockedUntil is null, a time to come or a time gone by), where it
\* stands and what it returned; auth.returned is the call that returned last
NoLogin ==
  [pc |-> "idle", email |-> "missing", password |-> "missing",
   user |-> [failedLoginAttempts |-> 0, lockedUntil |-> "none"], found |-> FALSE, result |-> "none"]

\* lockedUntil && lockedUntil > new Date()
isLocked(user) == user.lockedUntil = "future"

\* The data of the update after a wrong password
failedUpdate(user) ==
  LET newFailedAttempts == user.failedLoginAttempts + 1
      shouldLock == newFailedAttempts >= MAX_FAILED_ATTEMPTS
  IN [failedLoginAttempts |-> newFailedAttempts,
      lockedUntil |-> IF shouldLock THEN "future" ELSE "none"]

\* authorize up to bcrypt.compare: the credentials check, findUnique, the
\* missing user and the lock check each return null
authorizeLoad(p, email, password, findFails) ==
  /\ auth.calls[p].pc = "idle"
  /\ auth.attempts < MaxAttempts
  /\ LET call == [NoLogin EXCEPT !.email = email, !.password = password]
         exists == email = "known" /\ password # "missing" /\ ~findFails
         refused == ~exists \/ isLocked(auth.user)
         loaded == [call EXCEPT !.user = IF exists THEN auth.user ELSE @,
                                !.found = exists]
     IN auth' = [auth EXCEPT
                   !.attempts = @ + 1,
                   !.calls[p] = IF refused THEN NoLogin ELSE [loaded EXCEPT !.pc = "compared"],
                   !.returned = IF refused THEN [loaded EXCEPT !.result = "null"] ELSE @]
  /\ UNCHANGED <<records, created, actions, statusLog, messages, last, turn,
                 embeddings, found, ChatVars, starts, jobs, race, rate>>

\* authorize after bcrypt.compare: the update of the lockout columns, whose
\* failure is swallowed, and the return
authorizeFinish(p, updateFails) ==
  LET call == auth.calls[p]
      valid == call.password = "right"
      reset == call.user.failedLoginAttempts > 0 \/ call.user.lockedUntil # "none"
  IN
  /\ call.pc = "compared"
  /\ auth' = [auth EXCEPT
                !.user = IF updateFails THEN @
                         ELSE IF ~valid THEN failedUpdate(call.user)
                         ELSE IF reset THEN [failedLoginAttempts |-> 0, lockedUntil |-> "none"]
                         ELSE @,
                !.streak = IF valid THEN 0 ELSE @ + 1,
                !.calls[p] = NoLogin,
                !.returned = [call EXCEPT !.pc = "idle",
                                          !.result = IF valid THEN "identity" ELSE "null"]]
  /\ UNCHANGED <<records, created, actions, statusLog, messages, last, turn,
                 embeddings, found, ChatVars, starts, jobs, race, rate>>

\* Time passes and the lock runs out
lockExpires ==
  /\ auth.user.lockedUntil = "future"
  /\ auth' = [auth EXCEPT !.user.lockedUntil = "past"]
  /\ UNCHANGED <<records, created, actions, statusLog, messages, last, turn,
                 embeddings, found, ChatVars, starts, jobs, race, rate>>

InitAuth ==
  /\ records = SeedRecords
  /\ created = 0
  /\ actions = <<>>
  /\ statusLog = <<>>
  /\ messages = <<>>
  /\ last = NoCall
  /\ turn = NoTurn
  /\ embeddings = {}
  /\ found = NoSearch
  /\ started = 0
  /\ window = NoWindow
  /\ titleWrites = 0
  /\ starts = NoStarts
  /\ jobs = <<>>
  /\ race = <<>>
  /\ auth = [user |-> [failedLoginAttempts |-> 0, lockedUntil |-> "none"],
             calls |-> [p \in Callers |-> NoLogin],
             returned |-> NoLogin, streak |-> 0, attempts |-> 0]
  /\ rate = <<>>

NextAuth ==
  \/ \E p \in Callers, email \in {"missing", "known", "unknown"},
        password \in {"missing", "right", "wrong"}, findFails \in BOOLEAN :
       authorizeLoad(p, email, password, findFails)
  \/ \E p \in Callers, updateFails \in BOOLEAN : authorizeFinish(p, updateFails)
  \/ lockExpires

SpecAuth == InitAuth /\ [][NextAuth]_vars

\* C25, first half: authorize returns the identity only for a known email with
\* the right password on an account that is not locked, null otherwise.
C25_IdentityOnlyWhenAllowed ==
  auth.returned.result # "none" =>
    (auth.returned.result = "identity"
       <=> /\ auth.returned.email = "known"
           /\ auth.returned.password = "right"
           /\ auth.returned.found
           /\ ~isLocked(auth.returned.user))

\* C25: authorize returns the identity only when every condition holds, and
\* the failed password attempt that makes five in a row leaves the account
\* locked, so that the right password is refused until the lock runs out.
C25_FifthFailureLocks ==
  [][/\ C25_IdentityOnlyWhenAllowed'
     /\ (auth'.streak > auth.streak /\ auth'.streak >= MAX_FAILED_ATTEMPTS)
          => isLocked(auth'.user)]_vars

(* ------------------------------------------------------------------------ *)
(* Rate limiting (lib/rate-limit.ts)                                        *)
(* ------------------------------------------------------------------------ *)
ASSISTANT_CHAT == 10
ASSISTANT_THREAD == 30
MaxWindowRequests == 11
MaxWindows == 1

\* RATE_LIMITS[...].maxRequests of the endpoint's configuration
maxRequests(endpoint) == IF endpoint = "chat" THEN ASSISTANT_CHAT ELSE ASSISTANT_THREAD

\* The counters of the current window: the rate_limit_entries rows and the
\* fallbackStore entries by identifier, and per user and endpoint the requests
\* received and the handler invocations
NewWindow ==
  [db |-> [u \in Users |-> 0], fallbackStore |-> [u \in Users |-> 0],
   requests |-> [u \in Users |-> [e \in {"chat", "thread"} |-> 0]],
   handled |-> [u \in Users |-> [e \in {"chat", "thread"} |-> 0]],
   response |-> [userId |-> NoUser, endpoint |-> "none", status |-> 0], windowStart |-> 0]

\* checkRateLimitDb: the upsert increments the row of the identifier; when it
\* throws, checkRateLimitFallback increments the in-memory entry instead
checkRateLimitDb(identifier, endpoint, dbFails) ==
  LET count == IF dbFails THEN rate.fallbackStore[identifier] + 1
               ELSE rate.db[identifier] + 1
  IN [db |-> IF dbFails THEN rate.db ELSE [rate.db EXCEPT ![identifier] = count],
      fallbackStore |-> IF dbFails THEN [rate.fallbackStore EXCEPT ![identifier] = count]
                        ELSE rate.fallbackStore,
      allowed |-> count <= maxRequests(endpoint)]

\* withRateLimit(request, userId, options, handler): the identifier is the
\* user id, whatever the endpoint
withRateLimit(userId, endpoint, dbFails) ==
  LET result == checkRateLimitDb(userId, endpoint, dbFails)
      total == rate.requests["u1"]["chat"] + rate.requests["u1"]["thread"]
                 + rate.requests["u2"]["chat"] + rate.requests["u2"]["thread"]
  IN
  /\ total < MaxWindowRequests
  /\ rate' = [db |-> result.db,
              fallbackStore |-> result.fallbackStore,
              requests |-> [rate.requests EXCEPT ![userId][endpoint] = @ + 1],
              handled |-> IF result.allowed
                            THEN [rate.handled EXCEPT ![userId][endpoint] = @ + 1]
                            ELSE rate.handled,
              response |-> [userId |-> userId, endpoint |-> endpoint,
                            status |-> IF result.allowed THEN 200 ELSE 429],
              windowStart |-> rate.windowStart]
  /\ UNCHANGED <<records, created, actions, statusLog, messages, last, turn,
                 embeddings, found, ChatVars, starts, jobs, race, auth>>

\* The minute ends: the next request computes a new windowStart and key
windowEnds ==
  /\ rate.windowStart < MaxWindows
  /\ rate' = [NewWindow EXCEPT !.windowStart = rate.windowStart + 1]
  /\ UNCHANGED <<records, created, actions, statusLog, messages, last, turn,
                 embeddings, found, ChatVars, starts, jobs, race, auth>>

InitRate ==
  /\ records = SeedRecords
  /\ created = 0
  /\ actions = <<>>
  /\ statusLog = <<>>
  /\ messages = <<>>
  /\ last = NoCall
  /\ turn = NoTurn
  /\ embeddings = {}
  /\ found = NoSearch
  /\ started = 0
  /\ window = NoWindow
  /\ titleWrites = 0
  /\ starts = NoStarts
  /\ jobs = <<>>
  /\ race = <<>>
  /\ auth = <<>>
  /\ rate = NewWindow

NextRate ==
  \/ \E userId \in Users, endpoint \in {"chat", "thread"}, dbFails \in BOOLEAN :
       withRateLimit(userId, endpoint, dbFails)
  \/ windowEnds

SpecRate == InitRate /\ [][NextRate]_vars

\* C30: within a window a chat request is answered 429 only when the user
\* has made more than 10 chat requests, whatever they sent to other endpoints,
\* and the handler runs at most maxRequests times per user and endpoint.
C30_QuotaPerEndpoint ==
  /\ (rate.response.status = 429 /\ rate.response.endpoint = "chat")
       => rate.requests[rate.response.userId]["chat"] > ASSISTANT_CHAT
  /\ \A u \in Users, e \in {"chat", "thread"} : rate.handled[u][e] <= maxRequests(e)

====
